---------------------------- MODULE Spec2Model ----------------------------
(***************************************************************************)
(* A model of the boo toolchain: the lexer (src/src/lexer/lexer.rs), the   *)
(* parser (src/src/parser/parser.rs), the type checker                     *)
(* (src/src/analyzer/typechecker.rs), the bytecode compiler                *)
(* (src/src/bytecode/bytecode.rs) and the stack VM (src/src/vm/vm.rs).     *)
(*                                                                         *)
(* A run picks one program out of a bounded corpus.  A program is a source *)
(* text: it is tokenized, parsed, type-checked and compiled, and the       *)
(* instruction vector is then executed one VM instruction per step.  The   *)
(* stages are the public entry points tokenize, parse_program,             *)
(* check_program, compile and run; an error of tokenize or parse_program   *)
(* ends the run, while the result of check_program is recorded and does    *)
(* not gate the later stages, so that properties of the VM can be stated   *)
(* both for all compiled programs and for the type-checked ones only.      *)
(*                                                                         *)
(* The lexer and the parser return an error for every text that uses ..,   *)
(* **, %, <, <=, &&, ||, a unary operator or a method call.  For those     *)
(* constructs the run starts from a value of ASTNode given to              *)
(* TypeChecker::new and Bytecode::new directly (prog.direct); such a tree  *)
(* is an argument of the constructors, not a result of parse_program.      *)
(*                                                                         *)
(* Indices (pc, jump targets, label positions, scope_index) are 0-based as *)
(* in the source; instruction i of the vector is instructions[i + 1].  An  *)
(* f64 is its IEEE 754 value: a sign, an integer mantissa and a binary     *)
(* exponent, or an infinity or NaN; the arithmetic rounds to nearest, ties *)
(* to even.                                                                *)
(***************************************************************************)
EXTENDS Integers, Sequences, FiniteSets, TLC

VARIABLES
    prog,          \* the program under test: its descriptor in ProgramIds or SourceIds
    stage,         \* "source" | "tokens" | "lex_error" | "parsed" | "parse_error" |
                   \* "tree" | "checked" | "compiled" | "compile_error" | "running" |
                   \* "done" | "error", and for one binary operation "operands" | "typed"
    check,         \* result of TypeChecker::check_program: "" (not run), "ok" or the error
    instructions,  \* VM.instructions (output of Bytecode::compile)
    pc,            \* VM.pc
    stack,         \* VM.stack
    scopes,        \* VM.scopes
    call_stack,    \* VM.call_stack
    functions,     \* VM.functions
    result,        \* value returned by VM::run: [some |-> FALSE] or [some |-> TRUE, value |-> v]
    err,           \* the Err(String) returned by compile or run ("" when none)
    stdout,        \* lines written by the native print
    executed,      \* history: the set of pcs whose instruction was dispatched
    origin,        \* history: for each entry of scopes, what pushed it
    lexed,         \* result of Lexer::tokenize on the source text: [err, tokens]
    tree,          \* result of Parser::parse_program on the tokens: [err, node]
    typing         \* result of TypeChecker::check_binary_operation on one operation

vars == <<prog, stage, check, instructions, pc, stack, scopes, call_stack,
          functions, result, err, stdout, executed, origin, lexed, tree, typing>>

-----------------------------------------------------------------------------
(* Bounds of the corpus *)

\* largest number of parameters of the functions of the call family
MaxParams == 2

-----------------------------------------------------------------------------
(* Finite maps (HashMap<String, _>) *)

EmptyMap == [x \in {} |-> 0]

MapHas(m, k) == k \in DOMAIN m

MapPut(m, k, v) == [x \in (DOMAIN m) \cup {k} |-> IF x = k THEN v ELSE m[x]]

-----------------------------------------------------------------------------
(* Natural numbers of any size: the limbs in base 2^15, least significant   *)
(* first, no zero limb at the top.  The operators look at their arguments   *)
(* first and avoid recursion over the limbs, so that a long calculation is  *)
(* not deep to evaluate.                                                    *)
Base == 32768
LimbBits == 15

Limb(a, i) == IF 1 <= i /\ i <= Len(a) THEN a[i] ELSE 0

\* the limbs l[1] .. l[n] as a sequence with every limb worked out
Limbs(l) == l \o <<>>

\* a without the zero limbs at its top
BigTrim(a) ==
    IF a = <<>> \/ a[Len(a)] # 0 THEN a
    ELSE LET used == {i \in 1..Len(a) : a[i] # 0 /\ \A j \in (i + 1)..Len(a) : a[j] = 0}
         IN  IF used = {} THEN <<>> ELSE SubSeq(a, 1, CHOOSE i \in used : TRUE)

\* a natural number below 2^31
BigOf(n) == BigTrim(<<n % Base, (n \div Base) % Base, n \div (Base * Base)>>)

\* a + b
BigAdd(a, b) ==
    IF a = <<>> THEN b
    ELSE IF b = <<>> THEN a
    ELSE LET n == IF Len(a) >= Len(b) THEN Len(a) ELSE Len(b)
             s == Limbs([i \in 1..n |-> Limb(a, i) + Limb(b, i)])
             \* the carry into limb i: a limb below overflows and every limb
             \* between is full
             carry == Limbs([i \in 1..(n + 1) |->
                        IF \E j \in 1..(i - 1) :
                              s[j] >= Base /\ \A k \in (j + 1)..(i - 1) : s[k] = Base - 1
                        THEN 1 ELSE 0])
         IN  BigTrim(Limbs([i \in 1..(n + 1) |->
                             ((IF i <= n THEN s[i] ELSE 0) + carry[i]) % Base]))

\* -1, 0, 1 as a < b, a = b, a > b
BigCmp(a, b) ==
    IF Len(a) < Len(b) THEN -1
    ELSE IF Len(a) > Len(b) THEN 1
    ELSE LET differ == {i \in 1..Len(a) :
                            a[i] # b[i] /\ \A j \in (i + 1)..Len(a) : a[j] = b[j]}
         IN  IF differ = {} THEN 0
             ELSE IF \E i \in differ : a[i] < b[i] THEN -1 ELSE 1

\* a - b, a >= b
BigSub(a, b) ==
    IF b = <<>> THEN a
    ELSE LET borrow == Limbs([i \in 1..Len(a) |->
                        IF \E j \in 1..(i - 1) :
                              a[j] < Limb(b, j)
                                  /\ \A k \in (j + 1)..(i - 1) : a[k] = Limb(b, k)
                        THEN 1 ELSE 0])
         IN  BigTrim(Limbs([i \in 1..Len(a) |->
                             (a[i] - Limb(b, i) - borrow[i] + 2 * Base) % Base]))

\* a * k, 0 <= k < Base: the low halves of the limb products plus the high
\* halves one limb up
BigMulSmall(a, k) ==
    IF a = <<>> \/ k = 0 THEN <<>>
    ELSE IF k = 1 THEN a
    ELSE BigAdd(Limbs([i \in 1..Len(a) |-> (a[i] * k) % Base]),
                BigTrim(<<0>> \o [i \in 1..Len(a) |-> (a[i] * k) \div Base]))

BigShiftLimbs(a, k) == IF a = <<>> THEN a ELSE [i \in 1..k |-> 0] \o a

\* the sum of a * b[i] * Base^(i - 1) for i in lo..hi, split in halves
RECURSIVE BigMulRange(_, _, _, _)
BigMulRange(a, b, lo, hi) ==
    IF lo = hi THEN BigShiftLimbs(BigMulSmall(a, b[lo]), lo - 1)
    ELSE BigAdd(BigMulRange(a, b, lo, (lo + hi) \div 2),
                BigMulRange(a, b, (lo + hi) \div 2 + 1, hi))

\* a * b
BigMul(a, b) == IF a = <<>> \/ b = <<>> THEN <<>> ELSE BigMulRange(a, b, 1, Len(b))

BigSquare(a) == BigMul(a, a)

\* a * 2^bits
BigShl(a, bits) ==
    IF a = <<>> THEN a
    ELSE IF bits % LimbBits = 0 THEN BigShiftLimbs(a, bits \div LimbBits)
    ELSE LET j == bits % LimbBits
         IN  BigShiftLimbs(
                BigTrim(Limbs([i \in 1..(Len(a) + 1) |->
                                (Limb(a, i) % 2^(LimbBits - j)) * 2^j
                                    + Limb(a, i - 1) \div 2^(LimbBits - j)])),
                bits \div LimbBits)

\* a \div 2^bits
BigShr(a, bits) ==
    IF a = <<>> \/ bits = 0 THEN a
    ELSE LET j == bits % LimbBits
             k == bits \div LimbBits
         IN  BigTrim(Limbs([i \in 1..(Len(a) - k) |->
                             Limb(a, i + k) \div 2^j
                                 + (Limb(a, i + k + 1) % 2^j) * 2^(LimbBits - j)]))

\* the number of bits of a natural number below 2^31
BitLen(n) == IF n = 0 THEN 0 ELSE CHOOSE k \in 1..31 : 2^(k - 1) <= n /\ (k = 31 \/ n < 2^k)

BigBitLen(a) == IF a = <<>> THEN 0 ELSE LimbBits * (Len(a) - 1) + BitLen(a[Len(a)])

\* bit i of a, bit 0 the least significant
BigBit(a, i) == (Limb(a, i \div LimbBits + 1) \div 2^(i % LimbBits)) % 2

\* the low bits of a are all zero
BigLowZero(a, bits) ==
    /\ \A i \in 1..(bits \div LimbBits) : Limb(a, i) = 0
    /\ Limb(a, bits \div LimbBits + 1) % 2^(bits % LimbBits) = 0

BigOdd(a) == a # <<>> /\ a[1] % 2 = 1

\* the number of zero bits below the lowest one bit of a # 0
BigTrailingZeros(a) ==
    LET i == CHOOSE j \in 1..Len(a) : a[j] # 0 /\ \A k \in 1..(j - 1) : a[k] = 0
    IN  LimbBits * (i - 1)
            + (CHOOSE z \in 0..(LimbBits - 1) : a[i] % 2^z = 0 /\ (a[i] \div 2^z) % 2 = 1)

\* the largest d in lo..hi with d * b <= r, given lo * b <= r
RECURSIVE QuotientLimb(_, _, _, _)
QuotientLimb(r, b, lo, hi) ==
    IF lo = hi THEN lo
    ELSE LET mid == (lo + hi + 1) \div 2
         IN  IF BigCmp(BigMulSmall(b, mid), r) <= 0 THEN QuotientLimb(r, b, mid, hi)
             ELSE QuotientLimb(r, b, lo, mid - 1)

\* long division of a by b, a limb of a at a time from the top: q and r are
\* the quotient and the remainder of the limbs above i.  The top limb of b
\* is 2^14 or more, so the quotient limb is at most 2 below its estimate
\* from the top limbs.
RECURSIVE BigDivModFrom(_, _, _, _, _)
BigDivModFrom(a, b, i, q, r) ==
    IF i = 0 THEN <<q, r>>
    ELSE LET r1 == BigTrim(<<a[i]>> \o r)
             n == Len(b)
             estimate == (Limb(r1, n + 1) * Base + Limb(r1, n)) \div b[n]
             hi == IF estimate > Base - 1 THEN Base - 1 ELSE estimate
             d == QuotientLimb(r1, b, IF hi > 2 THEN hi - 2 ELSE 0, hi)
         IN  IF d = 0 /\ q = <<>> THEN BigDivModFrom(a, b, i - 1, <<>>, r1)
             ELSE BigDivModFrom(a, b, i - 1, <<d>> \o q, BigSub(r1, BigMulSmall(b, d)))

\* <<quotient, remainder>> of a by b # 0
BigDivMod(a, b) ==
    IF a = <<>> THEN <<a, a>>
    ELSE LET s == LimbBits - BitLen(b[Len(b)])
             A == BigShl(a, s)
             qr == BigDivModFrom(A, BigShl(b, s), Len(A), <<>>, <<>>)
         IN  <<qr[1], BigShr(qr[2], s)>>

-----------------------------------------------------------------------------
(* f64: the numbers of Token::Number, ASTNode::NumberLiteral,              *)
(* Instruction::PushNumber and Value::Number                               *)

Max(a, b) == IF a >= b THEN a ELSE b
Min(a, b) == IF a <= b THEN a ELSE b

(* f64: k is "finite", "inf" or "nan"; a finite value is (-1)^neg * m * 2^e  *)
(* with m an odd natural number below 2^53, or m = 0 and e = 0.              *)
MantissaBits == 53
MinExponent == -1074
MaxExponent == 1024

NaN == [k |-> "nan", neg |-> FALSE, m |-> <<>>, e |-> 0]
Infinity(neg) == [k |-> "inf", neg |-> neg, m |-> <<>>, e |-> 0]
Zero(neg) == [k |-> "finite", neg |-> neg, m |-> <<>>, e |-> 0]

\* the f64 that is exactly (-1)^neg * M * 2^E
Exactly(neg, M, E) ==
    IF M = <<>> THEN Zero(neg)
    ELSE LET z == BigTrailingZeros(M)
         IN  [k |-> "finite", neg |-> neg, m |-> BigShr(M, z), e |-> E + z]

\* the f64 of a small integer
FromInt(n) == Exactly(n < 0, BigOf(IF n < 0 THEN -n ELSE n), 0)

IsZero(x) == x.k = "finite" /\ x.m = <<>>
IsNaN(x) == x.k = "nan"
IsInf(x) == x.k = "inf"
Negated(x) == IF IsNaN(x) THEN x ELSE [x EXCEPT !.neg = ~x.neg]

\* the f64 nearest to (-1)^neg * M * 2^E, ties to the even mantissa
Round(neg, M, E) ==
    LET nb == BigBitLen(M)
        ef == Max(nb + E - MantissaBits, MinExponent)
        shift == ef - E
    IN  IF M = <<>> THEN Zero(neg)
        ELSE IF shift <= 0
        THEN IF nb + E > MaxExponent THEN Infinity(neg) ELSE Exactly(neg, M, E)
        ELSE LET q == BigShr(M, shift)
                 up == /\ BigBit(M, shift - 1) = 1
                       /\ (BigOdd(q) \/ ~BigLowZero(M, shift - 1))
                 q1 == IF up THEN BigAdd(q, <<1>>) ELSE q
             IN  IF BigBitLen(q1) + ef > MaxExponent THEN Infinity(neg)
                 ELSE Exactly(neg, q1, ef)

\* the f64 nearest to (-1)^neg * (P / Q) * 2^E, Q # 0: the quotient to 55 bits
\* or more, with one more bit that tells whether anything was left over
RoundRational(neg, P, Q, E) ==
    LET s == Max(0, MantissaBits + 3 + BigBitLen(Q) - BigBitLen(P))
        qr == BigDivMod(BigShl(P, s), Q)
        M == BigAdd(BigMulSmall(qr[1], 2), IF qr[2] = <<>> THEN <<>> ELSE <<1>>)
    IN  IF P = <<>> THEN Zero(neg) ELSE Round(neg, M, E - s - 1)

\* the position just above the leading bit of a finite non-zero x
TopBit(x) == BigBitLen(x.m) + x.e

\* -1, 0, 1 as |x| < |y|, |x| = |y|, |x| > |y|, for finite x and y
CmpMagnitude(x, y) ==
    IF IsZero(x) \/ IsZero(y)
    THEN (IF IsZero(x) THEN 0 ELSE 1) - (IF IsZero(y) THEN 0 ELSE 1)
    ELSE IF TopBit(x) # TopBit(y) THEN (IF TopBit(x) < TopBit(y) THEN -1 ELSE 1)
    ELSE LET low == Min(x.e, y.e)
         IN  BigCmp(BigShl(x.m, x.e - low), BigShl(y.m, y.e - low))

\* x + y for finite x and y
AddFinite(x, y) ==
    LET low == Min(x.e, y.e)
        X == BigShl(x.m, x.e - low)
        Y == BigShl(y.m, y.e - low)
        c == BigCmp(X, Y)
    IN  IF IsZero(x) /\ IsZero(y) THEN Zero(x.neg /\ y.neg)
        ELSE IF IsZero(x) THEN y
        ELSE IF IsZero(y) THEN x
        \* far below half a unit in the last place of the other operand
        ELSE IF x.e - y.e > 2 * MantissaBits + 3 THEN x
        ELSE IF y.e - x.e > 2 * MantissaBits + 3 THEN y
        ELSE IF x.neg = y.neg THEN Round(x.neg, BigAdd(X, Y), low)
        ELSE IF c = 0 THEN Zero(FALSE)
        ELSE IF c > 0 THEN Round(x.neg, BigSub(X, Y), low)
        ELSE Round(y.neg, BigSub(Y, X), low)

\* f64 + f64
F64Add(x, y) ==
    IF IsNaN(x) \/ IsNaN(y) THEN NaN
    ELSE IF IsInf(x) /\ IsInf(y) THEN (IF x.neg = y.neg THEN x ELSE NaN)
    ELSE IF IsInf(x) THEN x
    ELSE IF IsInf(y) THEN y
    ELSE AddFinite(x, y)

\* f64 - f64
F64Sub(x, y) == F64Add(x, Negated(y))

\* f64 * f64
F64Mul(x, y) ==
    LET neg == x.neg # y.neg
    IN  IF IsNaN(x) \/ IsNaN(y) THEN NaN
        ELSE IF IsInf(x) \/ IsInf(y)
        THEN (IF IsZero(x) \/ IsZero(y) THEN NaN ELSE Infinity(neg))
        ELSE IF IsZero(x) \/ IsZero(y) THEN Zero(neg)
        ELSE Round(neg, BigMul(x.m, y.m), x.e + y.e)

\* f64 / f64
F64Div(x, y) ==
    LET neg == x.neg # y.neg
    IN  IF IsNaN(x) \/ IsNaN(y) THEN NaN
        ELSE IF IsInf(x) THEN (IF IsInf(y) THEN NaN ELSE Infinity(neg))
        ELSE IF IsInf(y) THEN Zero(neg)
        ELSE IF IsZero(y) THEN (IF IsZero(x) THEN NaN ELSE Infinity(neg))
        ELSE IF IsZero(x) THEN Zero(neg)
        ELSE RoundRational(neg, x.m, y.m, x.e - y.e)

\* h * h * 2^bit modulo b
SquareMod(h, bit, b) ==
    IF h = <<>> THEN h ELSE BigDivMod(BigMulSmall(BigMul(h, h), 2^bit), b)[2]

\* 2^k modulo b, b # 0
RECURSIVE Pow2Mod(_, _)
Pow2Mod(k, b) ==
    IF k < LimbBits THEN BigDivMod(<<2^k>>, b)[2]
    ELSE SquareMod(Pow2Mod(k \div 2, b), k % 2, b)

\* f64 % f64: the remainder of the division truncated towards zero, with the
\* sign of the dividend; it is always an f64, so nothing is rounded
F64Rem(x, y) ==
    IF IsNaN(x) \/ IsNaN(y) \/ IsInf(x) \/ IsZero(y) THEN NaN
    ELSE IF IsInf(y) \/ IsZero(x) THEN x
    ELSE IF CmpMagnitude(x, y) < 0 THEN x
    ELSE IF x.e >= y.e
    THEN Exactly(x.neg, BigDivMod(BigMul(BigDivMod(x.m, y.m)[2],
                                         Pow2Mod(x.e - y.e, y.m)), y.m)[2], y.e)
    ELSE Exactly(x.neg, BigDivMod(x.m, BigShl(y.m, y.e - x.e))[2], x.e)

\* f64 < f64
F64Lt(x, y) ==
    IF IsNaN(x) \/ IsNaN(y) THEN FALSE
    ELSE IF IsZero(x) /\ IsZero(y) THEN FALSE
    ELSE IF IsInf(x) THEN x.neg /\ ~(IsInf(y) /\ y.neg)
    ELSE IF IsInf(y) THEN ~y.neg
    ELSE IF IsZero(x) THEN ~y.neg
    ELSE IF IsZero(y) THEN x.neg
    ELSE IF x.neg # y.neg THEN x.neg
    ELSE IF x.neg THEN CmpMagnitude(x, y) > 0
    ELSE CmpMagnitude(x, y) < 0

\* f64 == f64
F64Eq(x, y) ==
    IF IsNaN(x) \/ IsNaN(y) THEN FALSE
    ELSE IF IsZero(x) /\ IsZero(y) THEN TRUE
    ELSE x = y

(* f64::powf.  The power is worked out between two bounds, each a natural   *)
(* number m and an exponent e standing for m * 2^e, kept to a number of     *)
(* bits that leaves the bounds far closer than two neighbouring f64.        *)

BoundDown(m, e, bits) ==
    IF BigBitLen(m) <= bits THEN [m |-> m, e |-> e]
    ELSE [m |-> BigShr(m, BigBitLen(m) - bits), e |-> e + BigBitLen(m) - bits]

BoundUp(m, e, bits) ==
    IF BigBitLen(m) <= bits THEN [m |-> m, e |-> e]
    ELSE [m |-> BigAdd(BigShr(m, BigBitLen(m) - bits),
                       IF BigLowZero(m, BigBitLen(m) - bits) THEN <<>> ELSE <<1>>),
          e |-> e + BigBitLen(m) - bits]

\* beyond every finite f64, and below half the smallest one, with room to spare
HugeTop == 1100
TinyTop == -1200

\* the bounds lo <= hi of a positive number; huge or tiny once it has left
\* the range of f64 for good
Between(lo, hi) ==
    [lo |-> lo, hi |-> hi,
     huge |-> BigBitLen(lo.m) + lo.e > HugeTop,
     tiny |-> BigBitLen(hi.m) + hi.e < TinyTop]

\* the bounds of a product
MulBetween(a, b, bits) ==
    IF a.huge \/ a.tiny THEN a
    ELSE Between(BoundDown(BigMul(a.lo.m, b.lo.m), a.lo.e + b.lo.e, bits),
                 BoundUp(BigMul(a.hi.m, b.hi.m), a.hi.e + b.hi.e, bits))

\* the integer square root of n # 0 by Newton's method from x above it
RECURSIVE BigSqrtFrom(_, _)
RECURSIVE BigSqrtNext(_, _, _)
BigSqrtFrom(n, x) == BigSqrtNext(n, x, BigShr(BigAdd(x, BigDivMod(n, x)[1]), 1))

BigSqrtNext(n, x, next) == IF BigCmp(next, x) >= 0 THEN x ELSE BigSqrtFrom(n, next)

BigSqrt(n) == BigSqrtFrom(n, BigShl(<<1>>, (BigBitLen(n) + 1) \div 2))

\* m * 2^e with m of 2 * bits bits or more and e even
WidenedBy(b, grow) ==
    [m |-> BigShl(b.m, IF (b.e - grow) % 2 = 0 THEN grow ELSE grow + 1),
     e |-> b.e - (IF (b.e - grow) % 2 = 0 THEN grow ELSE grow + 1)]

Widened(b, bits) ==
    WidenedBy(b, IF BigBitLen(b.m) >= 2 * bits THEN 0 ELSE 2 * bits - BigBitLen(b.m))

\* the root r of w.m rounded down, and rounded up
RootDown(w, r) == [m |-> r, e |-> w.e \div 2]
RootUp(w, r) == [m |-> IF BigMul(r, r) = w.m THEN r ELSE BigAdd(r, <<1>>), e |-> w.e \div 2]

SqrtDownOf(w) == RootDown(w, BigSqrt(w.m))
SqrtUpOf(w) == RootUp(w, BigSqrt(w.m))

SqrtDown(b, bits) == SqrtDownOf(Widened(b, bits))

SqrtUp(b, bits) == SqrtUpOf(Widened(b, bits))

\* the bounds of the square root taken `times` times
RECURSIVE RootsBetween(_, _, _)
RootsBetween(a, times, bits) ==
    IF times = 0 \/ a.lo.m = <<>> THEN a
    ELSE RootsBetween(Between(SqrtDown(a.lo, bits), SqrtUp(a.hi, bits)), times - 1, bits)

\* a number of f64 size after more than bits + 12 square roots: within
\* 2^-bits of 1, on its own side of 1
NearOne(above, bits) ==
    IF above
    THEN Between([m |-> <<1>>, e |-> 0], [m |-> BigAdd(BigShl(<<1>>, bits), <<1>>), e |-> -bits])
    ELSE Between([m |-> BigSub(BigShl(<<1>>, bits), <<1>>), e |-> -bits], [m |-> <<1>>, e |-> 0])

\* the bounds of a^n for the bits of n below bit i, acc the power for the
\* bits from i up
RECURSIVE PowerFrom(_, _, _, _, _)
RECURSIVE PowerSquared(_, _, _, _, _)
PowerFrom(a, n, i, acc, bits) ==
    IF i = 0 \/ acc.huge \/ acc.tiny THEN acc
    ELSE PowerSquared(a, n, i, MulBetween(acc, acc, bits), bits)

PowerSquared(a, n, i, sq, bits) ==
    PowerFrom(a, n, i - 1, IF BigBit(n, i - 1) = 1 THEN MulBetween(sq, a, bits) ELSE sq, bits)

\* the bounds of a squared `times` times
RECURSIVE SquaresBetween(_, _, _)
SquaresBetween(a, times, bits) ==
    IF times = 0 \/ a.huge \/ a.tiny THEN a
    ELSE SquaresBetween(MulBetween(a, a, bits), times - 1, bits)

\* how close libm's pow comes to the power before it rounds it to an f64:
\* within 2^-PowSlack of it
PowSlack == 57

\* the values an f64 within the bounds, stretched by the slack, can round to
RoundedBound(neg, b, inverted) ==
    IF inverted THEN RoundRational(neg, <<1>>, b.m, -b.e) ELSE Round(neg, b.m, b.e)

PowStretched(neg, lo, hi, inverted) ==
    {RoundedBound(neg, bound, inverted) : bound \in {lo, hi}}

PowWithin(neg, b, inverted, exact) ==
    PowStretched(neg,
                 IF exact THEN b.lo
                 ELSE [m |-> BigSub(BigShl(b.lo.m, PowSlack), b.lo.m), e |-> b.lo.e - PowSlack],
                 IF exact THEN b.hi
                 ELSE [m |-> BigAdd(BigShl(b.hi.m, PowSlack), b.hi.m), e |-> b.hi.e - PowSlack],
                 inverted)

PowOutcomes(neg, b, inverted) ==
    IF b.huge THEN {IF inverted THEN Zero(neg) ELSE Infinity(neg)}
    ELSE IF b.tiny THEN {IF inverted THEN Infinity(neg) ELSE Zero(neg)}
    ELSE PowWithin(neg, b, inverted,
                   b.lo = b.hi
                     /\ BigBitLen(b.lo.m) - BigTrailingZeros(b.lo.m) < MantissaBits)

\* |x|^|y| for finite x and y, neither 0, |x| not 1
PowFromBase(base, y, squares, bits) ==
    SquaresBetween(PowerFrom(base, y.m, BigBitLen(y.m) - 1, base, bits), squares, bits)

PowWithBits(x, y, roots, squares, bits) ==
    PowFromBase(IF roots > bits + 12 THEN NearOne(BigBitLen(x.m) + x.e > 0, bits)
                ELSE RootsBetween(Between([m |-> x.m, e |-> x.e], [m |-> x.m, e |-> x.e]),
                                  roots, bits),
                y, squares, bits)

PowBySteps(x, y, roots, squares) ==
    PowWithBits(x, y, roots, squares,
                80 + BigBitLen(y.m) + (IF squares < 70 THEN squares ELSE 70))

PowBetween(x, y) ==
    PowBySteps(x, y, IF y.e < 0 THEN -y.e ELSE 0, IF y.e > 0 THEN y.e ELSE 0)

IsInteger(y) == y.k = "finite" /\ (y.m = <<>> \/ y.e >= 0)
IsOddInteger(y) == y.k = "finite" /\ y.m # <<>> /\ y.e = 0
IsOne(x) == x.k = "finite" /\ x.m = <<1>> /\ x.e = 0

PowSigned(x, y, neg, size) ==
        IF IsZero(y) \/ (IsOne(x) /\ ~x.neg) THEN {FromInt(1)}
        ELSE IF IsNaN(x) \/ IsNaN(y) THEN {NaN}
        ELSE IF IsInf(y)
        THEN {IF size = 0 THEN FromInt(1)
              ELSE IF (size > 0) = y.neg THEN Zero(FALSE) ELSE Infinity(FALSE)}
        ELSE IF IsZero(x) THEN {IF y.neg THEN Infinity(neg) ELSE Zero(neg)}
        ELSE IF IsInf(x) THEN {IF y.neg THEN Zero(neg) ELSE Infinity(neg)}
        ELSE IF x.neg /\ ~IsInteger(y) THEN {NaN}
        ELSE IF size = 0 THEN {Exactly(neg, <<1>>, 0)}
        ELSE PowOutcomes(neg, PowBetween(x, y), y.neg)

\* f64::powf(x, y), libm's pow: every f64 it can return.  The sign is that of
\* x for an odd integer y; the size is |x| compared with 1, for x not NaN
F64Powf(x, y) ==
    PowSigned(x, y, x.neg /\ IsOddInteger(y),
              IF IsInf(x) THEN 1 ELSE IF IsZero(x) THEN -1
              ELSE IF IsOne(x) THEN 0
              ELSE IF BigBitLen(x.m) + x.e > 0 THEN 1 ELSE -1)

\* 10^k
RECURSIVE BigPow10(_)
BigPow10(k) ==
    IF k < 4 THEN <<CASE k = 0 -> 1 [] k = 1 -> 10 [] k = 2 -> 100 [] k = 3 -> 1000>>
    ELSE IF k % 2 = 1 THEN BigMulSmall(BigSquare(BigPow10(k \div 2)), 10)
    ELSE BigSquare(BigPow10(k \div 2))

\* the natural number written by a sequence of digit values
RECURSIVE BigOfDigits(_, _, _)
BigOfDigits(digits, i, acc) ==
    IF i > Len(digits) THEN acc
    ELSE BigOfDigits(digits, i + 1,
                     IF acc = <<>> THEN BigOf(digits[i])
                     ELSE BigAdd(BigMulSmall(acc, 10), BigOf(digits[i])))

\* str::parse::<f64> of [-]int_part[.dec_part], the parts given as digit
\* values: the f64 nearest to the decimal number
ParseF64(negative, int_part, dec_part) ==
    RoundRational(negative, BigOfDigits(int_part \o dec_part, 1, <<>>),
                  BigPow10(Len(dec_part)), 0)

(* The shortest decimal digits that read back as the same f64                *)
(* (core::num::flt2dec::strategy::dragon::format_shortest).                  *)

\* flt2dec::decode of a finite non-zero x: x = mant * 2^exp, the f64 values
\* next to it are (mant - minus) * 2^exp and (mant + plus) * 2^exp away by
\* twice that, and the ends of the interval count when the mantissa that
\* integer_decode returns is even (it always is for a subnormal x)
Decode(x) ==
    LET nb == BigBitLen(x.m)
        \* the exponent of the 53-bit mantissa
        e53 == Max(nb + x.e - MantissaBits, MinExponent)
        m53 == BigShl(x.m, x.e - e53)
        normal == BigBitLen(m53) = MantissaBits
        minnorm == normal /\ nb = 1
    IN  IF minnorm
        THEN [mant |-> BigMulSmall(m53, 4), minus |-> <<1>>, plus |-> <<2>>,
              exp |-> e53 - 2, inclusive |-> TRUE]
        ELSE [mant |-> BigMulSmall(m53, 2), minus |-> <<1>>, plus |-> <<1>>,
              exp |-> e53 - 1, inclusive |-> ~normal \/ ~BigOdd(m53)]

\* a * 10^k / b compared with 1, for any integer k
CmpScaled(a, b, k) ==
    IF k >= 0 THEN BigCmp(a, BigMul(b, BigPow10(k)))
    ELSE BigCmp(BigMul(a, BigPow10(-k)), b)

\* the digit d found, with r1 / s left of the fraction: the digits end here
\* when what is left is within the interval below (down) or above (up)
ShortestEnd(r1, s, mp10, mm10, inclusive, down, up, digits) ==
    [digits |-> digits, r |-> r1, mp |-> mp10, mm |-> mm10, more |-> ~down /\ ~up,
     round_up |-> up /\ (~down \/ BigCmp(BigMulSmall(r1, 2), s) >= 0)]

ShortestStep(r1, s, mp10, mm10, inclusive, digits) ==
    ShortestEnd(r1, s, mp10, mm10, inclusive,
                IF inclusive THEN BigCmp(r1, mm10) <= 0 ELSE BigCmp(r1, mm10) < 0,
                IF inclusive THEN BigCmp(BigAdd(r1, mp10), s) >= 0
                ELSE BigCmp(BigAdd(r1, mp10), s) > 0,
                digits)

ShortestDigit(r10, s, mp10, mm10, inclusive, digits, d) ==
    ShortestStep(BigSub(r10, BigMulSmall(s, d)), s, mp10, mm10, inclusive,
                 Append(digits, d))

ShortestNext(r10, s, mp10, mm10, inclusive, digits) ==
    ShortestDigit(r10, s, mp10, mm10, inclusive, digits, QuotientLimb(r10, s, 0, 9))

\* the digits after digits, of the fraction r / s; mp / s and mm / s are the
\* distances to the ends of the interval
RECURSIVE ShortestFrom(_, _, _, _, _, _)
RECURSIVE ShortestMore(_, _, _)
ShortestFrom(r, s, mp, mm, inclusive, digits) ==
    ShortestMore(ShortestNext(BigMulSmall(r, 10), s, BigMulSmall(mp, 10),
                              BigMulSmall(mm, 10), inclusive, digits),
                 s, inclusive)

ShortestMore(made, s, inclusive) ==
    IF made.more THEN ShortestFrom(made.r, s, made.mp, made.mm, inclusive, made.digits)
    ELSE made

\* flt2dec::round_up: the digits plus one in the last place; a carry out of
\* the first digit leaves 1 followed by zeros and is reported
RECURSIVE RoundUpDigits(_, _)
RoundUpDigits(digits, i) ==
    IF i = 0 THEN [digits |-> <<1>> \o [j \in 1..(Len(digits) - 1) |-> 0], carry |-> TRUE]
    ELSE IF digits[i] < 9
    THEN [digits |-> [j \in 1..Len(digits) |->
                        IF j < i THEN digits[j] ELSE IF j = i THEN digits[i] + 1 ELSE 0],
          carry |-> FALSE]
    ELSE RoundUpDigits(digits, i - 1)

RoundedUp(rounded, k) ==
    [digits |-> rounded.digits, exp |-> IF rounded.carry THEN k + 1 ELSE k]

ShortestRounded(made, k) ==
    IF ~made.round_up THEN [digits |-> made.digits, exp |-> k]
    ELSE RoundedUp(RoundUpDigits(made.digits, Len(made.digits)), k)

\* a * 10^k for k > 0, a otherwise
TimesPow10(a, k) == IF k > 0 THEN BigMul(a, BigPow10(k)) ELSE a

\* the digits of r / s, which is below 10^k and not below 10^(k - 1)
ShortestScaled(r, s, mp, mm, inclusive, k) ==
    ShortestRounded(ShortestFrom(TimesPow10(r, -k), TimesPow10(s, k), TimesPow10(mp, -k),
                                 TimesPow10(mm, -k), inclusive, <<>>),
                    k)

\* high / s < 10^k (or <= when the ends do not count)
Below(high, s, inclusive, k) ==
    IF inclusive THEN CmpScaled(high, s, k) < 0 ELSE CmpScaled(high, s, k) <= 0

\* the k with 10^(k - 1) <= high / s < 10^k, near its estimate from the
\* numbers of bits (flt2dec::estimate_scaling_factor and the fix-up after it)
ScalingFactor(high, s, inclusive, estimate) ==
    CHOOSE k \in (estimate - 1)..(estimate + 2) :
        Below(high, s, inclusive, k) /\ ~Below(high, s, inclusive, k - 1)

ShortestBetween(r, s, mp, mm, inclusive, high) ==
    ShortestScaled(r, s, mp, mm, inclusive,
                   ScalingFactor(high, s, inclusive,
                                 ((BigBitLen(high) - BigBitLen(s)) * 30103) \div 100000))

ShortestOver(r, s, mp, mm, inclusive) ==
    ShortestBetween(r, s, mp, mm, inclusive, BigAdd(r, mp))

ShortestDecoded(dec, up2) ==
    ShortestOver(BigShl(dec.mant, up2),
                 BigShl(<<1>>, IF dec.exp < 0 THEN -dec.exp ELSE 0),
                 BigShl(dec.plus, up2), BigShl(dec.minus, up2), dec.inclusive)

ShortestOf(dec) == ShortestDecoded(dec, IF dec.exp >= 0 THEN dec.exp ELSE 0)

\* format_shortest of a finite non-zero x: x = 0.d1 d2 ... dn * 10^exp
Shortest(x) == ShortestOf(Decode(x))

\* the digits written one after the other (split in halves to keep the
\* evaluation shallow)
RECURSIVE DigitsToString(_)
DigitsToString(digits) ==
    IF digits = <<>> THEN ""
    ELSE IF Len(digits) = 1 THEN ToString(digits[1])
    ELSE DigitsToString(SubSeq(digits, 1, Len(digits) \div 2))
            \o DigitsToString(SubSeq(digits, Len(digits) \div 2 + 1, Len(digits)))

Zeros(n) == DigitsToString([j \in 1..n |-> 0])

\* flt2dec::digits_to_dec_str: 0.d1 ... dn * 10^exp written out in full, with
\* at least frac_digits digits after the point
digits_to_dec_str(digits, exp, frac_digits) ==
    LET n == Len(digits)
    IN  IF exp <= 0
        THEN "0." \o Zeros(-exp) \o DigitsToString(digits)
                \o Zeros(frac_digits - (n - exp))
        ELSE IF exp < n
        THEN DigitsToString(SubSeq(digits, 1, exp)) \o "."
                \o DigitsToString(SubSeq(digits, exp + 1, n))
                \o Zeros(frac_digits - (n - exp))
        ELSE DigitsToString(digits) \o Zeros(exp - n)
                \o (IF frac_digits > 0 THEN "." \o Zeros(frac_digits) ELSE "")

\* flt2dec::digits_to_exp_str with no minimum of digits: d1[.d2 ... dn]e<exp - 1>
digits_to_exp_str(digits, exp) ==
    ToString(digits[1])
        \o (IF Len(digits) > 1 THEN "." \o DigitsToString(Tail(digits)) ELSE "")
        \o "e" \o ToString(exp - 1)

Sign(x) == IF x.neg THEN "-" ELSE ""

DisplayDigits(made) == digits_to_dec_str(made.digits, made.exp, 0)

\* <f64 as Display>::fmt, that is f64::to_string
F64Display(x) ==
    IF IsNaN(x) THEN "NaN"
    ELSE IF IsInf(x) THEN Sign(x) \o "inf"
    ELSE IF IsZero(x) THEN Sign(x) \o "0"
    ELSE Sign(x) \o DisplayDigits(Shortest(x))

DebugDigits(made) ==
    IF made.exp > 16 \/ made.exp < -3 THEN digits_to_exp_str(made.digits, made.exp)
    ELSE digits_to_dec_str(made.digits, made.exp, 1)

\* <f64 as Debug>::fmt: at least one digit after the point, and the
\* exponent form from 1e16 up and below 1e-4
F64Debug(x) ==
    IF IsNaN(x) THEN "NaN"
    ELSE IF IsInf(x) THEN Sign(x) \o "inf"
    ELSE IF IsZero(x) THEN Sign(x) \o "0.0"
    ELSE Sign(x) \o DebugDigits(Shortest(x))

-----------------------------------------------------------------------------
(* Runtime values: vm.rs, enum Value.  f is the f64 of a Number *)

Number(x) == [t |-> "Number", f |-> x, s |-> "", b |-> FALSE]
String(s) == [t |-> "String", f |-> Zero(FALSE), s |-> s, b |-> FALSE]
Boolean(b) == [t |-> "Boolean", f |-> Zero(FALSE), s |-> "", b |-> b]
Void == [t |-> "Void", f |-> Zero(FALSE), s |-> "", b |-> FALSE]

None == [some |-> FALSE, value |-> Void]
Some(v) == [some |-> TRUE, value |-> v]

-----------------------------------------------------------------------------
(* AST nodes: parser/parser.rs, enum ASTNode and struct Parameter *)

Parameter(name, param_type, optional) ==
    [name |-> name, param_type |-> param_type, optional |-> optional]

Statement(e) == [kind |-> "Statement", expr |-> e]
ReturnStatement(e) == [kind |-> "ReturnStatement", expr |-> e]
BinaryOperation(l, op, r) == [kind |-> "BinaryOperation", left |-> l, op |-> op, right |-> r]
UnaryOperation(op, e) == [kind |-> "UnaryOperation", op |-> op, operand |-> e]
FunctionDeclaration(name, parameters, return_type, body) ==
    [kind |-> "FunctionDeclaration", name |-> name, parameters |-> parameters,
     return_type |-> return_type, body |-> body]
FunctionCall(name, arguments) == [kind |-> "FunctionCall", name |-> name, arguments |-> arguments]
MethodCall(object, method, arguments) ==
    [kind |-> "MethodCall", object |-> object, method |-> method, arguments |-> arguments]
\* else_body: None is has_else = FALSE
IfStatement(condition, then_body) ==
    [kind |-> "IfStatement", condition |-> condition, then_body |-> then_body,
     has_else |-> FALSE, else_body |-> <<>>]
IfElseStatement(condition, then_body, else_body) ==
    [kind |-> "IfStatement", condition |-> condition, then_body |-> then_body,
     has_else |-> TRUE, else_body |-> else_body]
VariableDeclaration(var_type, name, value) ==
    [kind |-> "VariableDeclaration", var_type |-> var_type, name |-> name, value |-> value]
Identifier(name) == [kind |-> "Identifier", name |-> name]
NumberLiteral(n) == [kind |-> "NumberLiteral", value |-> n]
StringLiteral(s) == [kind |-> "StringLiteral", value |-> s]
BooleanLiteral(b) == [kind |-> "BooleanLiteral", value |-> b]

-----------------------------------------------------------------------------
(* The lexer: lexer/lexer.rs.  The input is the sequence of the chars of   *)
(* the source text; the Lexer's `current` is src[i] and its `input`        *)
(* iterator the chars after position i.  None is NoChar.                   *)

NoChar == ""

AsciiDigits == {"0", "1", "2", "3", "4", "5", "6", "7", "8", "9"}

LowerCase ==
    {"a", "b", "c", "d", "e", "f", "g", "h", "i", "j", "k", "l", "m",
    "n", "o", "p", "q", "r", "s", "t", "u", "v", "w", "x", "y", "z"}

UpperCase ==
    {"A", "B", "C", "D", "E", "F", "G", "H", "I", "J", "K", "L", "M",
    "N", "O", "P", "Q", "R", "S", "T", "U", "V", "W", "X", "Y", "Z"}

\* A text is a string of UTF-16 code units; a char is a string of one unit or
\* of the two units of a surrogate pair.  A string literal holds the units
\* 0001..00FF but 0060, and the units hh80..hhFF; UnitRuns names them with
\* their codes, a run being <<code of the first unit, the units in order>>.
\* The rows it leaves out (1180, 1480, 1580, 1E80, 3480..4C80, 4E80..A380,
\* A580, AC80..D680, F980, FC80) hold letters only, printable, three bytes
\* long in UTF-8 and not Grapheme_Extend: a unit of none of the runs is one
\* of those letters
UnitRuns == <<
    <<1, "\t\n\f\r !\"#$%&'()*+,-./0123456789:;<=>?@ABCDEFGHIJKLMNOPQRSTUVWXYZ[\\]^_">>,
    <<97, "abcdefghijklmnopqrstuvwxyz{|}~ ¡¢£¤¥¦§¨©ª«¬­®¯°±²³´µ¶·¸¹º»¼½¾¿ÀÁÂÃÄÅÆÇÈÉÊËÌÍÎÏÐÑÒÓÔÕÖ×ØÙÚÛÜÝÞßàáâãäåæçèéêëìíîïðñòóôõö÷øùúûüýþÿ">>,
    <<384, "ƀƁƂƃƄƅƆƇƈƉƊƋƌƍƎƏƐƑƒƓƔƕƖƗƘƙƚƛƜƝƞƟƠơƢƣƤƥƦƧƨƩƪƫƬƭƮƯưƱƲƳƴƵƶƷƸƹƺƻƼƽƾƿǀǁǂǃǄǅǆǇǈǉǊǋǌǍǎǏǐǑǒǓǔǕǖǗǘǙǚǛǜǝǞǟǠǡǢǣǤǥǦǧǨǩǪǫǬǭǮǯǰǱǲǳǴǵǶǷǸǹǺǻǼǽǾǿ">>,
    <<640, "ʀʁʂʃʄʅʆʇʈʉʊʋʌʍʎʏʐʑʒʓʔʕʖʗʘʙʚʛʜʝʞʟʠʡʢʣʤʥʦʧʨʩʪʫʬʭʮʯʰʱʲʳʴʵʶʷʸʹʺʻʼʽʾʿˀˁ˂˃˄˅ˆˇˈˉˊˋˌˍˎˏːˑ˒˓˔˕˖˗˘˙˚˛˜˝˞˟ˠˡˢˣˤ˥˦˧˨˩˪˫ˬ˭ˮ˯˰˱˲˳˴˵˶˷˸˹˺˻˼˽˾˿">>,
    <<896, "΀΁΂΃΄΅Ά·ΈΉΊ΋Ό΍ΎΏΐΑΒΓΔΕΖΗΘΙΚΛΜΝΞΟΠΡ΢ΣΤΥΦΧΨΩΪΫάέήίΰαβγδεζηθικλμνξοπρςστυφχψωϊϋόύώϏϐϑϒϓϔϕϖϗϘϙϚϛϜϝϞϟϠϡϢϣϤϥϦϧϨϩϪϫϬϭϮϯϰϱϲϳϴϵ϶ϷϸϹϺϻϼϽϾϿ">>,
    <<1152, "Ҁҁ҂҃҄҅҆҇҈҉ҊҋҌҍҎҏҐґҒғҔҕҖҗҘҙҚқҜҝҞҟҠҡҢңҤҥҦҧҨҩҪҫҬҭҮүҰұҲҳҴҵҶҷҸҹҺһҼҽҾҿӀӁӂӃӄӅӆӇӈӉӊӋӌӍӎӏӐӑӒӓӔӕӖӗӘәӚӛӜӝӞӟӠӡӢӣӤӥӦӧӨөӪӫӬӭӮӯӰӱӲӳӴӵӶӷӸӹӺӻӼӽӾӿ">>,
    <<1408, "րցւփքօֆևֈ։֊֋֌֍֎֏֐ְֱֲֳִֵֶַָֹֺֻּֽ֑֖֛֢֣֤֥֦֧֪֚֭֮֒֓֔֕֗֘֙֜֝֞֟֠֡֨֩֫֬֯־ֿ׀ׁׂ׃ׅׄ׆ׇ׈׉׊׋׌׍׎׏אבגדהוזחטיךכלםמןנסעףפץצקרשת׫׬׭׮ׯװױײ׳״׵׶׷׸׹׺׻׼׽׾׿">>,
    <<1664, "ڀځڂڃڄڅچڇڈډڊڋڌڍڎڏڐڑڒړڔڕږڗژڙښڛڜڝڞڟڠڡڢڣڤڥڦڧڨکڪګڬڭڮگڰڱڲڳڴڵڶڷڸڹںڻڼڽھڿۀہۂۃۄۅۆۇۈۉۊۋیۍێۏېۑےۓ۔ەۖۗۘۙۚۛۜ۝۞ۣ۟۠ۡۢۤۥۦۧۨ۩۪ۭ۫۬ۮۯ۰۱۲۳۴۵۶۷۸۹ۺۻۼ۽۾ۿ">>,
    <<1920, "ހށނރބޅކއވމފދތލގޏސޑޒޓޔޕޖޗޘޙޚޛޜޝޞޟޠޡޢޣޤޥަާިީުޫެޭޮޯްޱ޲޳޴޵޶޷޸޹޺޻޼޽޾޿߀߁߂߃߄߅߆߇߈߉ߊߋߌߍߎߏߐߑߒߓߔߕߖߗߘߙߚߛߜߝߞߟߠߡߢߣߤߥߦߧߨߩߪ߲߫߬߭߮߯߰߱߳ߴߵ߶߷߸߹ߺ߻߼߽߾߿">>,
    <<2176, "ࢀࢁࢂࢃࢄࢅࢆࢇ࢈ࢉࢊࢋࢌࢍࢎ࢏࢐࢑࢒࢓࢔࢕࢖࢙࢚࢛ࢗ࢘࢜࢝࢞࢟ࢠࢡࢢࢣࢤࢥࢦࢧࢨࢩࢪࢫࢬࢭࢮࢯࢰࢱࢲࢳࢴࢵࢶࢷࢸࢹࢺࢻࢼࢽࢾࢿࣀࣁࣂࣃࣄࣅࣆࣇࣈࣉ࣏࣐࣑࣒࣓࣊࣋࣌࣍࣎ࣔࣕࣖࣗࣘࣙࣚࣛࣜࣝࣞࣟ࣠࣡࣢ࣰࣱࣲࣣࣦࣩ࣭࣮࣯ࣶࣹࣺࣤࣥࣧࣨ࣪࣫࣬ࣳࣴࣵࣷࣸࣻࣼࣽࣾࣿ">>,
    <<2432, "ঀঁংঃ঄অআইঈউঊঋঌ঍঎এঐ঑঒ওঔকখগঘঙচছজঝঞটঠডঢণতথদধন঩পফবভমযর঱ল঳঴঵শষসহ঺঻়ঽািীুূৃৄ৅৆েৈ৉৊োৌ্ৎ৏৐৑৒৓৔৕৖ৗ৘৙৚৛ড়ঢ়৞য়ৠৡৢৣ৤৥০১২৩৪৫৬৭৮৯ৰৱ৲৳৴৵৶৷৸৹৺৻ৼ৽৾৿">>,
    <<2688, "઀ઁંઃ઄અઆઇઈઉઊઋઌઍ઎એઐઑ઒ઓઔકખગઘઙચછજઝઞટઠડઢણતથદધન઩પફબભમયર઱લળ઴વશષસહ઺઻઼ઽાિીુૂૃૄૅ૆ેૈૉ૊ોૌ્૎૏ૐ૑૒૓૔૕૖૗૘૙૚૛૜૝૞૟ૠૡૢૣ૤૥૦૧૨૩૪૫૬૭૮૯૰૱૲૳૴૵૶૷૸ૹૺૻૼ૽૾૿">>,
    <<2944, "஀஁ஂஃ஄அஆஇஈஉஊ஋஌஍எஏஐ஑ஒஓஔக஖஗஘ஙச஛ஜ஝ஞட஠஡஢ணத஥஦஧நனப஫஬஭மயரறலளழவஶஷஸஹ஺஻஼஽ாிீுூ௃௄௅ெேை௉ொோௌ்௎௏ௐ௑௒௓௔௕௖ௗ௘௙௚௛௜௝௞௟௠௡௢௣௤௥௦௧௨௩௪௫௬௭௮௯௰௱௲௳௴௵௶௷௸௹௺௻௼௽௾௿">>,
    <<3200, "ಀಁಂಃ಄ಅಆಇಈಉಊಋಌ಍ಎಏಐ಑ಒಓಔಕಖಗಘಙಚಛಜಝಞಟಠಡಢಣತಥದಧನ಩ಪಫಬಭಮಯರಱಲಳ಴ವಶಷಸಹ಺಻಼ಽಾಿೀುೂೃೄ೅ೆೇೈ೉ೊೋೌ್೎೏೐೑೒೓೔ೕೖ೗೘೙೚೛೜ೝೞ೟ೠೡೢೣ೤೥೦೧೨೩೪೫೬೭೮೯೰ೱೲೳ೴೵೶೷೸೹೺೻೼೽೾೿">>,
    <<3456, "඀ඁංඃ඄අආඇඈඉඊඋඌඍඎඏඐඑඒඓඔඕඖ඗඘඙කඛගඝඞඟචඡජඣඤඥඦටඨඩඪණඬතථදධන඲ඳපඵබභමඹයර඼ල඾඿වශෂසහළෆ෇෈෉්෋෌෍෎ාැෑිීු෕ූ෗ෘෙේෛොෝෞෟ෠෡෢෣෤෥෦෧෨෩෪෫෬෭෮෯෰෱ෲෳ෴෵෶෷෸෹෺෻෼෽෾෿">>,
    <<3712, "຀ກຂ຃ຄ຅ຆງຈຉຊ຋ຌຍຎຏຐຑຒຓດຕຖທຘນບປຜຝພຟຠມຢຣ຤ລ຦ວຨຩສຫຬອຮຯະັາຳິີຶື຺ຸູົຼຽ຾຿ເແໂໃໄ໅ໆ໇່້໊໋໌ໍ໎໏໐໑໒໓໔໕໖໗໘໙໚໛ໜໝໞໟ໠໡໢໣໤໥໦໧໨໩໪໫໬໭໮໯໰໱໲໳໴໵໶໷໸໹໺໻໼໽໾໿">>,
    <<3968, "྄ཱྀྀྂྃ྅྆྇ྈྉྊྋྌྍྎྏྐྑྒྒྷྔྕྖྗ྘ྙྚྛྜྜྷྞྟྠྡྡྷྣྤྥྦྦྷྨྩྪྫྫྷྭྮྯྰྱྲླྴྵྶྷྸྐྵྺྻྼ྽྾྿࿀࿁࿂࿃࿄࿅࿆࿇࿈࿉࿊࿋࿌࿍࿎࿏࿐࿑࿒࿓࿔࿕࿖࿗࿘࿙࿚࿛࿜࿝࿞࿟࿠࿡࿢࿣࿤࿥࿦࿧࿨࿩࿪࿫࿬࿭࿮࿯࿰࿱࿲࿳࿴࿵࿶࿷࿸࿹࿺࿻࿼࿽࿾࿿">>,
    <<4224, "ႀႁႂႃႄႅႆႇႈႉႊႋႌႍႎႏ႐႑႒႓႔႕႖႗႘႙ႚႛႜႝ႞႟ႠႡႢႣႤႥႦႧႨႩႪႫႬႭႮႯႰႱႲႳႴႵႶႷႸႹႺႻႼႽႾႿჀჁჂჃჄჅ჆Ⴧ჈჉჊჋჌Ⴭ჎჏აბგდევზთიკლმნოპჟრსტუფქღყშჩცძწჭხჯჰჱჲჳჴჵჶჷჸჹჺ჻ჼჽჾჿ">>,
    <<4736, "ኀኁኂኃኄኅኆኇኈ኉ኊኋኌኍ኎኏ነኑኒናኔንኖኗኘኙኚኛኜኝኞኟአኡኢኣኤእኦኧከኩኪካኬክኮኯኰ኱ኲኳኴኵ኶኷ኸኹኺኻኼኽኾ኿ዀ዁ዂዃዄዅ዆዇ወዉዊዋዌውዎዏዐዑዒዓዔዕዖ዗ዘዙዚዛዜዝዞዟዠዡዢዣዤዥዦዧየዩዪያዬይዮዯደዱዲዳዴድዶዷዸዹዺዻዼዽዾዿ">>,
    <<4992, "ᎀᎁᎂᎃᎄᎅᎆᎇᎈᎉᎊᎋᎌᎍᎎᎏ᎐᎑᎒᎓᎔᎕᎖᎗᎘᎙᎚᎛᎜᎝᎞᎟ᎠᎡᎢᎣᎤᎥᎦᎧᎨᎩᎪᎫᎬᎭᎮᎯᎰᎱᎲᎳᎴᎵᎶᎷᎸᎹᎺᎻᎼᎽᎾᎿᏀᏁᏂᏃᏄᏅᏆᏇᏈᏉᏊᏋᏌᏍᏎᏏᏐᏑᏒᏓᏔᏕᏖᏗᏘᏙᏚᏛᏜᏝᏞᏟᏠᏡᏢᏣᏤᏥᏦᏧᏨᏩᏪᏫᏬᏭᏮᏯᏰᏱᏲᏳᏴᏵ᏶᏷ᏸᏹᏺᏻᏼᏽ᏾᏿">>,
    <<5760, " ᚁᚂᚃᚄᚅᚆᚇᚈᚉᚊᚋᚌᚍᚎᚏᚐᚑᚒᚓᚔᚕᚖᚗᚘᚙᚚ᚛᚜᚝᚞᚟ᚠᚡᚢᚣᚤᚥᚦᚧᚨᚩᚪᚫᚬᚭᚮᚯᚰᚱᚲᚳᚴᚵᚶᚷᚸᚹᚺᚻᚼᚽᚾᚿᛀᛁᛂᛃᛄᛅᛆᛇᛈᛉᛊᛋᛌᛍᛎᛏᛐᛑᛒᛓᛔᛕᛖᛗᛘᛙᛚᛛᛜᛝᛞᛟᛠᛡᛢᛣᛤᛥᛦᛧᛨᛩᛪ᛫᛬᛭ᛮᛯᛰᛱᛲᛳᛴᛵᛶᛷᛸ᛹᛺᛻᛼᛽᛾᛿">>,
    <<6016, "កខគឃងចឆជឈញដឋឌឍណតថទធនបផពភមយរលវឝឞសហឡអឣឤឥឦឧឨឩឪឫឬឭឮឯឰឱឲឳ឴឵ាិីឹឺុូួើឿៀេែៃោៅំះៈ៉៊់៌៍៎៏័៑្៓។៕៖ៗ៘៙៚៛ៜ៝៞៟០១២៣៤៥៦៧៨៩៪៫៬៭៮៯៰៱៲៳៴៵៶៷៸៹៺៻៼៽៾៿">>,
    <<6272, "ᢀᢁᢂᢃᢄᢅᢆᢇᢈᢉᢊᢋᢌᢍᢎᢏᢐᢑᢒᢓᢔᢕᢖᢗᢘᢙᢚᢛᢜᢝᢞᢟᢠᢡᢢᢣᢤᢥᢦᢧᢨᢩᢪ᢫᢬᢭᢮᢯ᢰᢱᢲᢳᢴᢵᢶᢷᢸᢹᢺᢻᢼᢽᢾᢿᣀᣁᣂᣃᣄᣅᣆᣇᣈᣉᣊᣋᣌᣍᣎᣏᣐᣑᣒᣓᣔᣕᣖᣗᣘᣙᣚᣛᣜᣝᣞᣟᣠᣡᣢᣣᣤᣥᣦᣧᣨᣩᣪᣫᣬᣭᣮᣯᣰᣱᣲᣳᣴᣵ᣶᣷᣸᣹᣺᣻᣼᣽᣾᣿">>,
    <<6528, "ᦀᦁᦂᦃᦄᦅᦆᦇᦈᦉᦊᦋᦌᦍᦎᦏᦐᦑᦒᦓᦔᦕᦖᦗᦘᦙᦚᦛᦜᦝᦞᦟᦠᦡᦢᦣᦤᦥᦦᦧᦨᦩᦪᦫ᦬᦭᦮᦯ᦰᦱᦲᦳᦴᦵᦶᦷᦸᦹᦺᦻᦼᦽᦾᦿᧀᧁᧂᧃᧄᧅᧆᧇᧈᧉ᧊᧋᧌᧍᧎᧏᧐᧑᧒᧓᧔᧕᧖᧗᧘᧙᧚᧛᧜᧝᧞᧟᧠᧡᧢᧣᧤᧥᧦᧧᧨᧩᧪᧫᧬᧭᧮᧯᧰᧱᧲᧳᧴᧵᧶᧷᧸᧹᧺᧻᧼᧽᧾᧿">>,
    <<6784, "᪀᪁᪂᪃᪄᪅᪆᪇᪈᪉᪊᪋᪌᪍᪎᪏᪐᪑᪒᪓᪔᪕᪖᪗᪘᪙᪚᪛᪜᪝᪞᪟᪠᪡᪢᪣᪤᪥᪦ᪧ᪨᪩᪪᪫᪬᪭᪮᪯᪵᪶᪷᪸᪹᪺᪽᪰᪱᪲᪳᪴᪻᪼᪾ᪿᫀ᫃᫄᫊᫁᫂᫅᫆᫇᫈᫉᫋ᫌᫍᫎ᫏᫐᫑᫒᫓᫔᫕᫖᫗᫘᫙᫚᫛᫜᫝᫞᫟᫠᫡᫢᫣᫤᫥᫦᫧᫨᫩᫪᫫᫬᫭᫮᫯᫰᫱᫲᫳᫴᫵᫶᫷᫸᫹᫺᫻᫼᫽᫾᫿">>,
    <<7040, "ᮀᮁᮂᮃᮄᮅᮆᮇᮈᮉᮊᮋᮌᮍᮎᮏᮐᮑᮒᮓᮔᮕᮖᮗᮘᮙᮚᮛᮜᮝᮞᮟᮠᮡᮢᮣᮤᮥᮦᮧᮨᮩ᮪᮫ᮬᮭᮮᮯ᮰᮱᮲᮳᮴᮵᮶᮷᮸᮹ᮺᮻᮼᮽᮾᮿᯀᯁᯂᯃᯄᯅᯆᯇᯈᯉᯊᯋᯌᯍᯎᯏᯐᯑᯒᯓᯔᯕᯖᯗᯘᯙᯚᯛᯜᯝᯞᯟᯠᯡᯢᯣᯤᯥ᯦ᯧᯨᯩᯪᯫᯬᯭᯮᯯᯰᯱ᯲᯳᯴᯵᯶᯷᯸᯹᯺᯻᯼᯽᯾᯿">>,
    <<7296, "ᲀᲁᲂᲃᲄᲅᲆᲇᲈᲉᲊ᲋᲌᲍᲎᲏ᲐᲑᲒᲓᲔᲕᲖᲗᲘᲙᲚᲛᲜᲝᲞᲟᲠᲡᲢᲣᲤᲥᲦᲧᲨᲩᲪᲫᲬᲭᲮᲯᲰᲱᲲᲳᲴᲵᲶᲷᲸᲹᲺ᲻᲼ᲽᲾᲿ᳀᳁᳂᳃᳄᳅᳆᳇᳈᳉᳊᳋᳌᳍᳎᳏᳐᳑᳒᳓᳔᳕᳖᳗᳘᳙᳜᳝᳞᳟᳚᳛᳠᳡᳢᳣᳤᳥᳦᳧᳨ᳩᳪᳫᳬ᳭ᳮᳯᳰᳱᳲᳳ᳴ᳵᳶ᳷᳸᳹ᳺ᳻᳼᳽᳾᳿">>,
    <<7552, "ᶀᶁᶂᶃᶄᶅᶆᶇᶈᶉᶊᶋᶌᶍᶎᶏᶐᶑᶒᶓᶔᶕᶖᶗᶘᶙᶚᶛᶜᶝᶞᶟᶠᶡᶢᶣᶤᶥᶦᶧᶨᶩᶪᶫᶬᶭᶮᶯᶰᶱᶲᶳᶴᶵᶶᶷᶸᶹᶺᶻᶼᶽᶾᶿ᷐᷎᷺᷂᷊᷏᷹᷽᷿᷷᷸᷀᷁᷃᷄᷅᷆᷇᷈᷉᷋᷌᷑᷒ᷓᷔᷕᷖᷗᷘᷙᷚᷛᷜᷝᷞᷟᷠᷡᷢᷣᷤᷥᷦᷧᷨᷩᷪᷫᷬᷭᷮᷯᷰᷱᷲᷳᷴ᷵᷻᷾᷶᷼᷍">>,
    <<8064, "ᾀᾁᾂᾃᾄᾅᾆᾇᾈᾉᾊᾋᾌᾍᾎᾏᾐᾑᾒᾓᾔᾕᾖᾗᾘᾙᾚᾛᾜᾝᾞᾟᾠᾡᾢᾣᾤᾥᾦᾧᾨᾩᾪᾫᾬᾭᾮᾯᾰᾱᾲᾳᾴ᾵ᾶᾷᾸᾹᾺΆᾼ᾽ι᾿῀῁ῂῃῄ῅ῆῇῈΈῊΉῌ῍῎῏ῐῑῒΐ῔῕ῖῗῘῙῚΊ῜῝῞῟ῠῡῢΰῤῥῦῧῨῩῪΎῬ῭΅`῰῱ῲῳῴ῵ῶῷῸΌῺΏῼ´῾῿">>,
    <<8320, "₀₁₂₃₄₅₆₇₈₉₊₋₌₍₎₏ₐₑₒₓₔₕₖₗₘₙₚₛₜ₝₞₟₠₡₢₣₤₥₦₧₨₩₪₫€₭₮₯₰₱₲₳₴₵₶₷₸₹₺₻₼₽₾₿⃀⃁⃂⃃⃄⃅⃆⃇⃈⃉⃊⃋⃌⃍⃎⃏⃒⃓⃘⃙⃚⃐⃑⃔⃕⃖⃗⃛⃜⃝⃞⃟⃠⃡⃢⃣⃤⃥⃦⃪⃫⃨⃬⃭⃮⃯⃧⃩⃰⃱⃲⃳⃴⃵⃶⃷⃸⃹⃺⃻⃼⃽⃾⃿">>,
    <<8576, "ↀↁↂↃↄↅↆↇↈ↉↊↋↌↍↎↏←↑→↓↔↕↖↗↘↙↚↛↜↝↞↟↠↡↢↣↤↥↦↧↨↩↪↫↬↭↮↯↰↱↲↳↴↵↶↷↸↹↺↻↼↽↾↿⇀⇁⇂⇃⇄⇅⇆⇇⇈⇉⇊⇋⇌⇍⇎⇏⇐⇑⇒⇓⇔⇕⇖⇗⇘⇙⇚⇛⇜⇝⇞⇟⇠⇡⇢⇣⇤⇥⇦⇧⇨⇩⇪⇫⇬⇭⇮⇯⇰⇱⇲⇳⇴⇵⇶⇷⇸⇹⇺⇻⇼⇽⇾⇿">>,
    <<8832, "⊀⊁⊂⊃⊄⊅⊆⊇⊈⊉⊊⊋⊌⊍⊎⊏⊐⊑⊒⊓⊔⊕⊖⊗⊘⊙⊚⊛⊜⊝⊞⊟⊠⊡⊢⊣⊤⊥⊦⊧⊨⊩⊪⊫⊬⊭⊮⊯⊰⊱⊲⊳⊴⊵⊶⊷⊸⊹⊺⊻⊼⊽⊾⊿⋀⋁⋂⋃⋄⋅⋆⋇⋈⋉⋊⋋⋌⋍⋎⋏⋐⋑⋒⋓⋔⋕⋖⋗⋘⋙⋚⋛⋜⋝⋞⋟⋠⋡⋢⋣⋤⋥⋦⋧⋨⋩⋪⋫⋬⋭⋮⋯⋰⋱⋲⋳⋴⋵⋶⋷⋸⋹⋺⋻⋼⋽⋾⋿">>,
    <<9088, "⎀⎁⎂⎃⎄⎅⎆⎇⎈⎉⎊⎋⎌⎍⎎⎏⎐⎑⎒⎓⎔⎕⎖⎗⎘⎙⎚⎛⎜⎝⎞⎟⎠⎡⎢⎣⎤⎥⎦⎧⎨⎩⎪⎫⎬⎭⎮⎯⎰⎱⎲⎳⎴⎵⎶⎷⎸⎹⎺⎻⎼⎽⎾⎿⏀⏁⏂⏃⏄⏅⏆⏇⏈⏉⏊⏋⏌⏍⏎⏏⏐⏑⏒⏓⏔⏕⏖⏗⏘⏙⏚⏛⏜⏝⏞⏟⏠⏡⏢⏣⏤⏥⏦⏧⏨⏩⏪⏫⏬⏭⏮⏯⏰⏱⏲⏳⏴⏵⏶⏷⏸⏹⏺⏻⏼⏽⏾⏿">>,
    <<9344, "⒀⒁⒂⒃⒄⒅⒆⒇⒈⒉⒊⒋⒌⒍⒎⒏⒐⒑⒒⒓⒔⒕⒖⒗⒘⒙⒚⒛⒜⒝⒞⒟⒠⒡⒢⒣⒤⒥⒦⒧⒨⒩⒪⒫⒬⒭⒮⒯⒰⒱⒲⒳⒴⒵ⒶⒷⒸⒹⒺⒻⒼⒽⒾⒿⓀⓁⓂⓃⓄⓅⓆⓇⓈⓉⓊⓋⓌⓍⓎⓏⓐⓑⓒⓓⓔⓕⓖⓗⓘⓙⓚⓛⓜⓝⓞⓟⓠⓡⓢⓣⓤⓥⓦⓧⓨⓩ⓪⓫⓬⓭⓮⓯⓰⓱⓲⓳⓴⓵⓶⓷⓸⓹⓺⓻⓼⓽⓾⓿">>,
    <<9600, "▀▁▂▃▄▅▆▇█▉▊▋▌▍▎▏▐░▒▓▔▕▖▗▘▙▚▛▜▝▞▟■□▢▣▤▥▦▧▨▩▪▫▬▭▮▯▰▱▲△▴▵▶▷▸▹►▻▼▽▾▿◀◁◂◃◄◅◆◇◈◉◊○◌◍◎●◐◑◒◓◔◕◖◗◘◙◚◛◜◝◞◟◠◡◢◣◤◥◦◧◨◩◪◫◬◭◮◯◰◱◲◳◴◵◶◷◸◹◺◻◼◽◾◿">>,
    <<9856, "⚀⚁⚂⚃⚄⚅⚆⚇⚈⚉⚊⚋⚌⚍⚎⚏⚐⚑⚒⚓⚔⚕⚖⚗⚘⚙⚚⚛⚜⚝⚞⚟⚠⚡⚢⚣⚤⚥⚦⚧⚨⚩⚪⚫⚬⚭⚮⚯⚰⚱⚲⚳⚴⚵⚶⚷⚸⚹⚺⚻⚼⚽⚾⚿⛀⛁⛂⛃⛄⛅⛆⛇⛈⛉⛊⛋⛌⛍⛎⛏⛐⛑⛒⛓⛔⛕⛖⛗⛘⛙⛚⛛⛜⛝⛞⛟⛠⛡⛢⛣⛤⛥⛦⛧⛨⛩⛪⛫⛬⛭⛮⛯⛰⛱⛲⛳⛴⛵⛶⛷⛸⛹⛺⛻⛼⛽⛾⛿">>,
    <<10112, "➀➁➂➃➄➅➆➇➈➉➊➋➌➍➎➏➐➑➒➓➔➕➖➗➘➙➚➛➜➝➞➟➠➡➢➣➤➥➦➧➨➩➪➫➬➭➮➯➰➱➲➳➴➵➶➷➸➹➺➻➼➽➾➿⟀⟁⟂⟃⟄⟅⟆⟇⟈⟉⟊⟋⟌⟍⟎⟏⟐⟑⟒⟓⟔⟕⟖⟗⟘⟙⟚⟛⟜⟝⟞⟟⟠⟡⟢⟣⟤⟥⟦⟧⟨⟩⟪⟫⟬⟭⟮⟯⟰⟱⟲⟳⟴⟵⟶⟷⟸⟹⟺⟻⟼⟽⟾⟿">>,
    <<10368, "⢀⢁⢂⢃⢄⢅⢆⢇⢈⢉⢊⢋⢌⢍⢎⢏⢐⢑⢒⢓⢔⢕⢖⢗⢘⢙⢚⢛⢜⢝⢞⢟⢠⢡⢢⢣⢤⢥⢦⢧⢨⢩⢪⢫⢬⢭⢮⢯⢰⢱⢲⢳⢴⢵⢶⢷⢸⢹⢺⢻⢼⢽⢾⢿⣀⣁⣂⣃⣄⣅⣆⣇⣈⣉⣊⣋⣌⣍⣎⣏⣐⣑⣒⣓⣔⣕⣖⣗⣘⣙⣚⣛⣜⣝⣞⣟⣠⣡⣢⣣⣤⣥⣦⣧⣨⣩⣪⣫⣬⣭⣮⣯⣰⣱⣲⣳⣴⣵⣶⣷⣸⣹⣺⣻⣼⣽⣾⣿">>,
    <<10624, "⦀⦁⦂⦃⦄⦅⦆⦇⦈⦉⦊⦋⦌⦍⦎⦏⦐⦑⦒⦓⦔⦕⦖⦗⦘⦙⦚⦛⦜⦝⦞⦟⦠⦡⦢⦣⦤⦥⦦⦧⦨⦩⦪⦫⦬⦭⦮⦯⦰⦱⦲⦳⦴⦵⦶⦷⦸⦹⦺⦻⦼⦽⦾⦿⧀⧁⧂⧃⧄⧅⧆⧇⧈⧉⧊⧋⧌⧍⧎⧏⧐⧑⧒⧓⧔⧕⧖⧗⧘⧙⧚⧛⧜⧝⧞⧟⧠⧡⧢⧣⧤⧥⧦⧧⧨⧩⧪⧫⧬⧭⧮⧯⧰⧱⧲⧳⧴⧵⧶⧷⧸⧹⧺⧻⧼⧽⧾⧿">>,
    <<10880, "⪀⪁⪂⪃⪄⪅⪆⪇⪈⪉⪊⪋⪌⪍⪎⪏⪐⪑⪒⪓⪔⪕⪖⪗⪘⪙⪚⪛⪜⪝⪞⪟⪠⪡⪢⪣⪤⪥⪦⪧⪨⪩⪪⪫⪬⪭⪮⪯⪰⪱⪲⪳⪴⪵⪶⪷⪸⪹⪺⪻⪼⪽⪾⪿⫀⫁⫂⫃⫄⫅⫆⫇⫈⫉⫊⫋⫌⫍⫎⫏⫐⫑⫒⫓⫔⫕⫖⫗⫘⫙⫚⫛⫝̸⫝⫞⫟⫠⫡⫢⫣⫤⫥⫦⫧⫨⫩⫪⫫⫬⫭⫮⫯⫰⫱⫲⫳⫴⫵⫶⫷⫸⫹⫺⫻⫼⫽⫾⫿">>,
    <<11136, "⮀⮁⮂⮃⮄⮅⮆⮇⮈⮉⮊⮋⮌⮍⮎⮏⮐⮑⮒⮓⮔⮕⮖⮗⮘⮙⮚⮛⮜⮝⮞⮟⮠⮡⮢⮣⮤⮥⮦⮧⮨⮩⮪⮫⮬⮭⮮⮯⮰⮱⮲⮳⮴⮵⮶⮷⮸⮹⮺⮻⮼⮽⮾⮿⯀⯁⯂⯃⯄⯅⯆⯇⯈⯉⯊⯋⯌⯍⯎⯏⯐⯑⯒⯓⯔⯕⯖⯗⯘⯙⯚⯛⯜⯝⯞⯟⯠⯡⯢⯣⯤⯥⯦⯧⯨⯩⯪⯫⯬⯭⯮⯯⯰⯱⯲⯳⯴⯵⯶⯷⯸⯹⯺⯻⯼⯽⯾⯿">>,
    <<11392, "ⲀⲁⲂⲃⲄⲅⲆⲇⲈⲉⲊⲋⲌⲍⲎⲏⲐⲑⲒⲓⲔⲕⲖⲗⲘⲙⲚⲛⲜⲝⲞⲟⲠⲡⲢⲣⲤⲥⲦⲧⲨⲩⲪⲫⲬⲭⲮⲯⲰⲱⲲⲳⲴⲵⲶⲷⲸⲹⲺⲻⲼⲽⲾⲿⳀⳁⳂⳃⳄⳅⳆⳇⳈⳉⳊⳋⳌⳍⳎⳏⳐⳑⳒⳓⳔⳕⳖⳗⳘⳙⳚⳛⳜⳝⳞⳟⳠⳡⳢⳣⳤ⳥⳦⳧⳨⳩⳪ⳫⳬⳭⳮ⳯⳰⳱Ⳳⳳ⳴⳵⳶⳷⳸⳹⳺⳻⳼⳽⳾⳿">>,
    <<11648, "ⶀⶁⶂⶃⶄⶅⶆⶇⶈⶉⶊⶋⶌⶍⶎⶏⶐⶑⶒⶓⶔⶕⶖ⶗⶘⶙⶚⶛⶜⶝⶞⶟ⶠⶡⶢⶣⶤⶥⶦ⶧ⶨⶩⶪⶫⶬⶭⶮ⶯ⶰⶱⶲⶳⶴⶵⶶ⶷ⶸⶹⶺⶻⶼⶽⶾ⶿ⷀⷁⷂⷃⷄⷅⷆ⷇ⷈⷉⷊⷋⷌⷍⷎ⷏ⷐⷑⷒⷓⷔⷕⷖ⷗ⷘⷙⷚⷛⷜⷝⷞ⷟ⷠⷡⷢⷣⷤⷥⷦⷧⷨⷩⷪⷫⷬⷭⷮⷯⷰⷱⷲⷳⷴⷵⷶⷷⷸⷹⷺⷻⷼⷽⷾⷿ">>,
    <<11904, "⺀⺁⺂⺃⺄⺅⺆⺇⺈⺉⺊⺋⺌⺍⺎⺏⺐⺑⺒⺓⺔⺕⺖⺗⺘⺙⺚⺛⺜⺝⺞⺟⺠⺡⺢⺣⺤⺥⺦⺧⺨⺩⺪⺫⺬⺭⺮⺯⺰⺱⺲⺳⺴⺵⺶⺷⺸⺹⺺⺻⺼⺽⺾⺿⻀⻁⻂⻃⻄⻅⻆⻇⻈⻉⻊⻋⻌⻍⻎⻏⻐⻑⻒⻓⻔⻕⻖⻗⻘⻙⻚⻛⻜⻝⻞⻟⻠⻡⻢⻣⻤⻥⻦⻧⻨⻩⻪⻫⻬⻭⻮⻯⻰⻱⻲⻳⻴⻵⻶⻷⻸⻹⻺⻻⻼⻽⻾⻿">>,
    <<12160, "⾀⾁⾂⾃⾄⾅⾆⾇⾈⾉⾊⾋⾌⾍⾎⾏⾐⾑⾒⾓⾔⾕⾖⾗⾘⾙⾚⾛⾜⾝⾞⾟⾠⾡⾢⾣⾤⾥⾦⾧⾨⾩⾪⾫⾬⾭⾮⾯⾰⾱⾲⾳⾴⾵⾶⾷⾸⾹⾺⾻⾼⾽⾾⾿⿀⿁⿂⿃⿄⿅⿆⿇⿈⿉⿊⿋⿌⿍⿎⿏⿐⿑⿒⿓⿔⿕⿖⿗⿘⿙⿚⿛⿜⿝⿞⿟⿠⿡⿢⿣⿤⿥⿦⿧⿨⿩⿪⿫⿬⿭⿮⿯⿰⿱⿲⿳⿴⿵⿶⿷⿸⿹⿺⿻⿼⿽⿾⿿">>,
    <<12416, "むめもゃやゅゆょよらりるれろゎわゐゑをんゔゕゖ゗゘゙゚゛゜ゝゞゟ゠ァアィイゥウェエォオカガキギクグケゲコゴサザシジスズセゼソゾタダチヂッツヅテデトドナニヌネノハバパヒビピフブプヘベペホボポマミムメモャヤュユョヨラリルレロヮワヰヱヲンヴヵヶヷヸヹヺ・ーヽヾヿ">>,
    <<12672, "ㆀㆁㆂㆃㆄㆅㆆㆇㆈㆉㆊㆋㆌㆍㆎ㆏㆐㆑㆒㆓㆔㆕㆖㆗㆘㆙㆚㆛㆜㆝㆞㆟ㆠㆡㆢㆣㆤㆥㆦㆧㆨㆩㆪㆫㆬㆭㆮㆯㆰㆱㆲㆳㆴㆵㆶㆷㆸㆹㆺㆻㆼㆽㆾㆿ㇀㇁㇂㇃㇄㇅㇆㇇㇈㇉㇊㇋㇌㇍㇎㇏㇐㇑㇒㇓㇔㇕㇖㇗㇘㇙㇚㇛㇜㇝㇞㇟㇠㇡㇢㇣㇤㇥㇦㇧㇨㇩㇪㇫㇬㇭㇮㇯ㇰㇱㇲㇳㇴㇵㇶㇷㇸㇹㇺㇻㇼㇽㇾㇿ">>,
    <<12928, "㊀㊁㊂㊃㊄㊅㊆㊇㊈㊉㊊㊋㊌㊍㊎㊏㊐㊑㊒㊓㊔㊕㊖㊗㊘㊙㊚㊛㊜㊝㊞㊟㊠㊡㊢㊣㊤㊥㊦㊧㊨㊩㊪㊫㊬㊭㊮㊯㊰㊱㊲㊳㊴㊵㊶㊷㊸㊹㊺㊻㊼㊽㊾㊿㋀㋁㋂㋃㋄㋅㋆㋇㋈㋉㋊㋋㋌㋍㋎㋏㋐㋑㋒㋓㋔㋕㋖㋗㋘㋙㋚㋛㋜㋝㋞㋟㋠㋡㋢㋣㋤㋥㋦㋧㋨㋩㋪㋫㋬㋭㋮㋯㋰㋱㋲㋳㋴㋵㋶㋷㋸㋹㋺㋻㋼㋽㋾㋿">>,
    <<13184, "㎀㎁㎂㎃㎄㎅㎆㎇㎈㎉㎊㎋㎌㎍㎎㎏㎐㎑㎒㎓㎔㎕㎖㎗㎘㎙㎚㎛㎜㎝㎞㎟㎠㎡㎢㎣㎤㎥㎦㎧㎨㎩㎪㎫㎬㎭㎮㎯㎰㎱㎲㎳㎴㎵㎶㎷㎸㎹㎺㎻㎼㎽㎾㎿㏀㏁㏂㏃㏄㏅㏆㏇㏈㏉㏊㏋㏌㏍㏎㏏㏐㏑㏒㏓㏔㏕㏖㏗㏘㏙㏚㏛㏜㏝㏞㏟㏠㏡㏢㏣㏤㏥㏦㏧㏨㏩㏪㏫㏬㏭㏮㏯㏰㏱㏲㏳㏴㏵㏶㏷㏸㏹㏺㏻㏼㏽㏾㏿">>,
    <<19840, "䶀䶁䶂䶃䶄䶅䶆䶇䶈䶉䶊䶋䶌䶍䶎䶏䶐䶑䶒䶓䶔䶕䶖䶗䶘䶙䶚䶛䶜䶝䶞䶟䶠䶡䶢䶣䶤䶥䶦䶧䶨䶩䶪䶫䶬䶭䶮䶯䶰䶱䶲䶳䶴䶵䶶䶷䶸䶹䶺䶻䶼䶽䶾䶿䷀䷁䷂䷃䷄䷅䷆䷇䷈䷉䷊䷋䷌䷍䷎䷏䷐䷑䷒䷓䷔䷕䷖䷗䷘䷙䷚䷛䷜䷝䷞䷟䷠䷡䷢䷣䷤䷥䷦䷧䷨䷩䷪䷫䷬䷭䷮䷯䷰䷱䷲䷳䷴䷵䷶䷷䷸䷹䷺䷻䷼䷽䷾䷿">>,
    <<42112, "ꒀꒁꒂꒃꒄꒅꒆꒇꒈꒉꒊꒋꒌ꒍꒎꒏꒐꒑꒒꒓꒔꒕꒖꒗꒘꒙꒚꒛꒜꒝꒞꒟꒠꒡꒢꒣꒤꒥꒦꒧꒨꒩꒪꒫꒬꒭꒮꒯꒰꒱꒲꒳꒴꒵꒶꒷꒸꒹꒺꒻꒼꒽꒾꒿꓀꓁꓂꓃꓄꓅꓆꓇꓈꓉꓊꓋꓌꓍꓎꓏ꓐꓑꓒꓓꓔꓕꓖꓗꓘꓙꓚꓛꓜꓝꓞꓟꓠꓡꓢꓣꓤꓥꓦꓧꓨꓩꓪꓫꓬꓭꓮꓯꓰꓱꓲꓳꓴꓵꓶꓷꓸꓹꓺꓻꓼꓽ꓾꓿">>,
    <<42624, "ꚀꚁꚂꚃꚄꚅꚆꚇꚈꚉꚊꚋꚌꚍꚎꚏꚐꚑꚒꚓꚔꚕꚖꚗꚘꚙꚚꚛꚜꚝꚞꚟꚠꚡꚢꚣꚤꚥꚦꚧꚨꚩꚪꚫꚬꚭꚮꚯꚰꚱꚲꚳꚴꚵꚶꚷꚸꚹꚺꚻꚼꚽꚾꚿꛀꛁꛂꛃꛄꛅꛆꛇꛈꛉꛊꛋꛌꛍꛎꛏꛐꛑꛒꛓꛔꛕꛖꛗꛘꛙꛚꛛꛜꛝꛞꛟꛠꛡꛢꛣꛤꛥꛦꛧꛨꛩꛪꛫꛬꛭꛮꛯ꛰꛱꛲꛳꛴꛵꛶꛷꛸꛹꛺꛻꛼꛽꛾꛿">>,
    <<42880, "ꞀꞁꞂꞃꞄꞅꞆꞇꞈ꞉꞊ꞋꞌꞍꞎꞏꞐꞑꞒꞓꞔꞕꞖꞗꞘꞙꞚꞛꞜꞝꞞꞟꞠꞡꞢꞣꞤꞥꞦꞧꞨꞩꞪꞫꞬꞭꞮꞯꞰꞱꞲꞳꞴꞵꞶꞷꞸꞹꞺꞻꞼꞽꞾꞿꟀꟁꟂꟃꟄꟅꟆꟇꟈꟉꟊꟋꟌꟍ꟎꟏Ꟑꟑ꟒ꟓ꟔ꟕꟖꟗꟘꟙꟚꟛꟜ꟝꟞꟟꟠꟡꟢꟣꟤꟥꟦꟧꟨꟩꟪꟫꟬꟭꟮꟯꟰꟱ꟲꟳꟴꟵꟶꟷꟸꟹꟺꟻꟼꟽꟾꟿ">>,
    <<43136, "ꢀꢁꢂꢃꢄꢅꢆꢇꢈꢉꢊꢋꢌꢍꢎꢏꢐꢑꢒꢓꢔꢕꢖꢗꢘꢙꢚꢛꢜꢝꢞꢟꢠꢡꢢꢣꢤꢥꢦꢧꢨꢩꢪꢫꢬꢭꢮꢯꢰꢱꢲꢳꢴꢵꢶꢷꢸꢹꢺꢻꢼꢽꢾꢿꣀꣁꣂꣃ꣄ꣅ꣆꣇꣈꣉꣊꣋꣌꣍꣎꣏꣐꣑꣒꣓꣔꣕꣖꣗꣘꣙꣚꣛꣜꣝꣞꣟꣠꣡꣢꣣꣤꣥꣦꣧꣨꣩꣪꣫꣬꣭꣮꣯꣰꣱ꣲꣳꣴꣵꣶꣷ꣸꣹꣺ꣻ꣼ꣽꣾꣿ">>,
    <<43392, "ꦀꦁꦂꦃꦄꦅꦆꦇꦈꦉꦊꦋꦌꦍꦎꦏꦐꦑꦒꦓꦔꦕꦖꦗꦘꦙꦚꦛꦜꦝꦞꦟꦠꦡꦢꦣꦤꦥꦦꦧꦨꦩꦪꦫꦬꦭꦮꦯꦰꦱꦲ꦳ꦴꦵꦶꦷꦸꦹꦺꦻꦼꦽꦾꦿ꧀꧁꧂꧃꧄꧅꧆꧇꧈꧉꧊꧋꧌꧍꧎ꧏ꧐꧑꧒꧓꧔꧕꧖꧗꧘꧙꧚꧛꧜꧝꧞꧟ꧠꧡꧢꧣꧤꧥꧦꧧꧨꧩꧪꧫꧬꧭꧮꧯ꧰꧱꧲꧳꧴꧵꧶꧷꧸꧹ꧺꧻꧼꧽꧾ꧿">>,
    <<43648, "ꪀꪁꪂꪃꪄꪅꪆꪇꪈꪉꪊꪋꪌꪍꪎꪏꪐꪑꪒꪓꪔꪕꪖꪗꪘꪙꪚꪛꪜꪝꪞꪟꪠꪡꪢꪣꪤꪥꪦꪧꪨꪩꪪꪫꪬꪭꪮꪯꪰꪱꪴꪲꪳꪵꪶꪷꪸꪹꪺꪻꪼꪽꪾ꪿ꫀ꫁ꫂ꫃꫄꫅꫆꫇꫈꫉꫊꫋꫌꫍꫎꫏꫐꫑꫒꫓꫔꫕꫖꫗꫘꫙꫚ꫛꫜꫝ꫞꫟ꫠꫡꫢꫣꫤꫥꫦꫧꫨꫩꫪꫫꫬꫭꫮꫯ꫰꫱ꫲꫳꫴꫵ꫶꫷꫸꫹꫺꫻꫼꫽꫾꫿">>,
    <<43904, "ꮀꮁꮂꮃꮄꮅꮆꮇꮈꮉꮊꮋꮌꮍꮎꮏꮐꮑꮒꮓꮔꮕꮖꮗꮘꮙꮚꮛꮜꮝꮞꮟꮠꮡꮢꮣꮤꮥꮦꮧꮨꮩꮪꮫꮬꮭꮮꮯꮰꮱꮲꮳꮴꮵꮶꮷꮸꮹꮺꮻꮼꮽꮾꮿꯀꯁꯂꯃꯄꯅꯆꯇꯈꯉꯊꯋꯌꯍꯎꯏꯐꯑꯒꯓꯔꯕꯖꯗꯘꯙꯚꯛꯜꯝꯞꯟꯠꯡꯢꯣꯤꯥꯦꯧꯨꯩꯪ꯫꯬꯭꯮꯯꯰꯱꯲꯳꯴꯵꯶꯷꯸꯹꯺꯻꯼꯽꯾꯿">>,
    <<55168, "힀힁힂힃힄힅힆힇히힉힊힋힌힍힎힏힐힑힒힓힔힕힖힗힘힙힚힛힜힝힞힟힠힡힢힣힤힥힦힧힨힩힪힫힬힭힮힯ힰힱힲힳힴힵힶힷힸힹힺힻힼힽힾힿퟀퟁퟂퟃퟄퟅퟆ퟇퟈퟉퟊ퟋퟌퟍퟎퟏퟐퟑퟒퟓퟔퟕퟖퟗퟘퟙퟚퟛퟜퟝퟞퟟퟠퟡퟢퟣퟤퟥퟦퟧퟨퟩퟪퟫퟬퟭퟮퟯퟰퟱퟲퟳퟴퟵퟶퟷퟸퟹퟺퟻ퟼퟽퟾퟿">>,
    <<57472, "">>,
    <<57728, "">>,
    <<57984, "">>,
    <<58240, "">>,
    <<58496, "">>,
    <<58752, "">>,
    <<59008, "">>,
    <<59264, "">>,
    <<59520, "">>,
    <<59776, "">>,
    <<60032, "">>,
    <<60288, "">>,
    <<60544, "">>,
    <<60800, "">>,
    <<61056, "">>,
    <<61312, "">>,
    <<61568, "">>,
    <<61824, "">>,
    <<62080, "">>,
    <<62336, "">>,
    <<62592, "">>,
    <<62848, "">>,
    <<63104, "">>,
    <<63360, "">>,
    <<63616, "">>,
    <<64128, "婢嬨廒廙彩徭惘慎愈憎慠懲戴揄搜摒敖晴朗望杖歹殺流滛滋漢瀞煮瞧爵犯猪瑱甆画瘝瘟益盛直睊着磌窱節类絛練缾者荒華蝹襁覆視調諸請謁諾諭謹變贈輸遲醙鉶陼難靖韛響頋頻鬒龜𢡊𢡄𣏕㮝䀘䀹𥉉𥳐𧻓齃龎﫚﫛﫜﫝﫞﫟﫠﫡﫢﫣﫤﫥﫦﫧﫨﫩﫪﫫﫬﫭﫮﫯﫰﫱﫲﫳﫴﫵﫶﫷﫸﫹﫺﫻﫼﫽﫾﫿">>,
    <<64384, "ﮀﮁﮂﮃﮄﮅﮆﮇﮈﮉﮊﮋﮌﮍﮎﮏﮐﮑﮒﮓﮔﮕﮖﮗﮘﮙﮚﮛﮜﮝﮞﮟﮠﮡﮢﮣﮤﮥﮦﮧﮨﮩﮪﮫﮬﮭﮮﮯﮰﮱ﮲﮳﮴﮵﮶﮷﮸﮹﮺﮻﮼﮽﮾﮿﯀﯁﯂﯃﯄﯅﯆﯇﯈﯉﯊﯋﯌﯍﯎﯏﯐﯑﯒ﯓﯔﯕﯖﯗﯘﯙﯚﯛﯜﯝﯞﯟﯠﯡﯢﯣﯤﯥﯦﯧﯨﯩﯪﯫﯬﯭﯮﯯﯰﯱﯲﯳﯴﯵﯶﯷﯸﯹﯺﯻﯼﯽﯾﯿ">>,
    <<64896, "ﶀﶁﶂﶃﶄﶅﶆﶇﶈﶉﶊﶋﶌﶍﶎﶏ﶐﶑ﶒﶓﶔﶕﶖﶗﶘﶙﶚﶛﶜﶝﶞﶟﶠﶡﶢﶣﶤﶥﶦﶧﶨﶩﶪﶫﶬﶭﶮﶯﶰﶱﶲﶳﶴﶵﶶﶷﶸﶹﶺﶻﶼﶽﶾﶿﷀﷁﷂﷃﷄﷅﷆﷇ﷈﷉﷊﷋﷌﷍﷎﷏﷐﷑﷒﷓﷔﷕﷖﷗﷘﷙﷚﷛﷜﷝﷞﷟﷠﷡﷢﷣﷤﷥﷦﷧﷨﷩﷪﷫﷬﷭﷮﷯ﷰﷱﷲﷳﷴﷵﷶﷷﷸﷹﷺﷻ﷼﷽﷾﷿">>,
    <<65152, "ﺀﺁﺂﺃﺄﺅﺆﺇﺈﺉﺊﺋﺌﺍﺎﺏﺐﺑﺒﺓﺔﺕﺖﺗﺘﺙﺚﺛﺜﺝﺞﺟﺠﺡﺢﺣﺤﺥﺦﺧﺨﺩﺪﺫﺬﺭﺮﺯﺰﺱﺲﺳﺴﺵﺶﺷﺸﺹﺺﺻﺼﺽﺾﺿﻀﻁﻂﻃﻄﻅﻆﻇﻈﻉﻊﻋﻌﻍﻎﻏﻐﻑﻒﻓﻔﻕﻖﻗﻘﻙﻚﻛﻜﻝﻞﻟﻠﻡﻢﻣﻤﻥﻦﻧﻨﻩﻪﻫﻬﻭﻮﻯﻰﻱﻲﻳﻴﻵﻶﻷﻸﻹﻺﻻﻼ﻽﻾﻿">>,
    <<65408, "ﾀﾁﾂﾃﾄﾅﾆﾇﾈﾉﾊﾋﾌﾍﾎﾏﾐﾑﾒﾓﾔﾕﾖﾗﾘﾙﾚﾛﾜﾝﾞﾟﾠﾡﾢﾣﾤﾥﾦﾧﾨﾩﾪﾫﾬﾭﾮﾯﾰﾱﾲﾳﾴﾵﾶﾷﾸﾹﾺﾻﾼﾽﾾ﾿￀￁ￂￃￄￅￆￇ￈￉ￊￋￌￍￎￏ￐￑ￒￓￔￕￖￗ￘￙ￚￛￜ￝￞￟￠￡￢￣￤￥￦￧￨￩￪￫￬￭￮￯￰￱￲￳￴￵￶￷￸￹￺￻￼�￾￿">>
>>

\* the surrogates: the chars of a run are pairs whose first unit counts up
\* from the code (HighSurrogateRuns) or whose second unit does
\* (LowSurrogateRuns)
HighSurrogateRuns == <<
    <<55424, "𰂀𰒀𰢀𰲀𱂀𱒀𱢀𱲀𲂀𲒀𲢀𲲀𳂀𳒀𳢀𳲀𴂀𴒀𴢀𴲀𵂀𵒀𵢀𵲀𶂀𶒀𶢀𶲀𷂀𷒀𷢀𷲀𸂀𸒀𸢀𸲀𹂀𹒀𹢀𹲀𺂀𺒀𺢀𺲀𻂀𻒀𻢀𻲀𼂀𼒀𼢀𼲀𽂀𽒀𽢀𽲀𾂀𾒀𾢀𾲀𿂀𿒀𿢀𿲀񀂀񀒀񀢀񀲀񁂀񁒀񁢀񁲀񂂀񂒀񂢀񂲀񃂀񃒀񃢀񃲀񄂀񄒀񄢀񄲀񅂀񅒀񅢀񅲀񆂀񆒀񆢀񆲀񇂀񇒀񇢀񇲀񈂀񈒀񈢀񈲀񉂀񉒀񉢀񉲀񊂀񊒀񊢀񊲀񋂀񋒀񋢀񋲀񌂀񌒀񌢀񌲀񍂀񍒀񍢀񍲀񎂀񎒀񎢀񎲀񏂀񏒀񏢀񏲀">>,
    <<55680, "񰂀񰒀񰢀񰲀񱂀񱒀񱢀񱲀񲂀񲒀񲢀񲲀񳂀񳒀񳢀񳲀񴂀񴒀񴢀񴲀񵂀񵒀񵢀񵲀񶂀񶒀񶢀񶲀񷂀񷒀񷢀񷲀񸂀񸒀񸢀񸲀񹂀񹒀񹢀񹲀񺂀񺒀񺢀񺲀񻂀񻒀񻢀񻲀񼂀񼒀񼢀񼲀񽂀񽒀񽢀񽲀񾂀񾒀񾢀񾲀񿂀񿒀񿢀񿲀򀂀򀒀򀢀򀲀򁂀򁒀򁢀򁲀򂂀򂒀򂢀򂲀򃂀򃒀򃢀򃲀򄂀򄒀򄢀򄲀򅂀򅒀򅢀򅲀򆂀򆒀򆢀򆲀򇂀򇒀򇢀򇲀򈂀򈒀򈢀򈲀򉂀򉒀򉢀򉲀򊂀򊒀򊢀򊲀򋂀򋒀򋢀򋲀򌂀򌒀򌢀򌲀򍂀򍒀򍢀򍲀򎂀򎒀򎢀򎲀򏂀򏒀򏢀򏲀">>,
    <<55936, "򰂀򰒀򰢀򰲀򱂀򱒀򱢀򱲀򲂀򲒀򲢀򲲀򳂀򳒀򳢀򳲀򴂀򴒀򴢀򴲀򵂀򵒀򵢀򵲀򶂀򶒀򶢀򶲀򷂀򷒀򷢀򷲀򸂀򸒀򸢀򸲀򹂀򹒀򹢀򹲀򺂀򺒀򺢀򺲀򻂀򻒀򻢀򻲀򼂀򼒀򼢀򼲀򽂀򽒀򽢀򽲀򾂀򾒀򾢀򾲀򿂀򿒀򿢀򿲀󀂀󀒀󀢀󀲀󁂀󁒀󁢀󁲀󂂀󂒀󂢀󂲀󃂀󃒀󃢀󃲀󄂀󄒀󄢀󄲀󅂀󅒀󅢀󅲀󆂀󆒀󆢀󆲀󇂀󇒀󇢀󇲀󈂀󈒀󈢀󈲀󉂀󉒀󉢀󉲀󊂀󊒀󊢀󊲀󋂀󋒀󋢀󋲀󌂀󌒀󌢀󌲀󍂀󍒀󍢀󍲀󎂀󎒀󎢀󎲀󏂀󏒀󏢀󏲀">>,
    <<56192, "󰂀󰒀󰢀󰲀󱂀󱒀󱢀󱲀󲂀󲒀󲢀󲲀󳂀󳒀󳢀󳲀󴂀󴒀󴢀󴲀󵂀󵒀󵢀󵲀󶂀󶒀󶢀󶲀󷂀󷒀󷢀󷲀󸂀󸒀󸢀󸲀󹂀󹒀󹢀󹲀󺂀󺒀󺢀󺲀󻂀󻒀󻢀󻲀󼂀󼒀󼢀󼲀󽂀󽒀󽢀󽲀󾂀󾒀󾢀󾲀󿂀󿒀󿢀󿲀􀂀􀒀􀢀􀲀􁂀􁒀􁢀􁲀􂂀􂒀􂢀􂲀􃂀􃒀􃢀􃲀􄂀􄒀􄢀􄲀􅂀􅒀􅢀􅲀􆂀􆒀􆢀􆲀􇂀􇒀􇢀􇲀􈂀􈒀􈢀􈲀􉂀􉒀􉢀􉲀􊂀􊒀􊢀􊲀􋂀􋒀􋢀􋲀􌂀􌒀􌢀􌲀􍂀􍒀􍢀􍲀􎂀􎒀􎢀􎲀􏂀􏒀􏢀􏲀">>
>>

LowSurrogateRuns == <<
    <<56448, "𰂀𰂁𰂂𰂃𰂄𰂅𰂆𰂇𰂈𰂉𰂊𰂋𰂌𰂍𰂎𰂏𰂐𰂑𰂒𰂓𰂔𰂕𰂖𰂗𰂘𰂙𰂚𰂛𰂜𰂝𰂞𰂟𰂠𰂡𰂢𰂣𰂤𰂥𰂦𰂧𰂨𰂩𰂪𰂫𰂬𰂭𰂮𰂯𰂰𰂱𰂲𰂳𰂴𰂵𰂶𰂷𰂸𰂹𰂺𰂻𰂼𰂽𰂾𰂿𰃀𰃁𰃂𰃃𰃄𰃅𰃆𰃇𰃈𰃉𰃊𰃋𰃌𰃍𰃎𰃏𰃐𰃑𰃒𰃓𰃔𰃕𰃖𰃗𰃘𰃙𰃚𰃛𰃜𰃝𰃞𰃟𰃠𰃡𰃢𰃣𰃤𰃥𰃦𰃧𰃨𰃩𰃪𰃫𰃬𰃭𰃮𰃯𰃰𰃱𰃲𰃳𰃴𰃵𰃶𰃷𰃸𰃹𰃺𰃻𰃼𰃽𰃾𰃿">>,
    <<56704, "𰆀𰆁𰆂𰆃𰆄𰆅𰆆𰆇𰆈𰆉𰆊𰆋𰆌𰆍𰆎𰆏𰆐𰆑𰆒𰆓𰆔𰆕𰆖𰆗𰆘𰆙𰆚𰆛𰆜𰆝𰆞𰆟𰆠𰆡𰆢𰆣𰆤𰆥𰆦𰆧𰆨𰆩𰆪𰆫𰆬𰆭𰆮𰆯𰆰𰆱𰆲𰆳𰆴𰆵𰆶𰆷𰆸𰆹𰆺𰆻𰆼𰆽𰆾𰆿𰇀𰇁𰇂𰇃𰇄𰇅𰇆𰇇𰇈𰇉𰇊𰇋𰇌𰇍𰇎𰇏𰇐𰇑𰇒𰇓𰇔𰇕𰇖𰇗𰇘𰇙𰇚𰇛𰇜𰇝𰇞𰇟𰇠𰇡𰇢𰇣𰇤𰇥𰇦𰇧𰇨𰇩𰇪𰇫𰇬𰇭𰇮𰇯𰇰𰇱𰇲𰇳𰇴𰇵𰇶𰇷𰇸𰇹𰇺𰇻𰇼𰇽𰇾𰇿">>,
    <<56960, "𰊀𰊁𰊂𰊃𰊄𰊅𰊆𰊇𰊈𰊉𰊊𰊋𰊌𰊍𰊎𰊏𰊐𰊑𰊒𰊓𰊔𰊕𰊖𰊗𰊘𰊙𰊚𰊛𰊜𰊝𰊞𰊟𰊠𰊡𰊢𰊣𰊤𰊥𰊦𰊧𰊨𰊩𰊪𰊫𰊬𰊭𰊮𰊯𰊰𰊱𰊲𰊳𰊴𰊵𰊶𰊷𰊸𰊹𰊺𰊻𰊼𰊽𰊾𰊿𰋀𰋁𰋂𰋃𰋄𰋅𰋆𰋇𰋈𰋉𰋊𰋋𰋌𰋍𰋎𰋏𰋐𰋑𰋒𰋓𰋔𰋕𰋖𰋗𰋘𰋙𰋚𰋛𰋜𰋝𰋞𰋟𰋠𰋡𰋢𰋣𰋤𰋥𰋦𰋧𰋨𰋩𰋪𰋫𰋬𰋭𰋮𰋯𰋰𰋱𰋲𰋳𰋴𰋵𰋶𰋷𰋸𰋹𰋺𰋻𰋼𰋽𰋾𰋿">>,
    <<57216, "𰎀𰎁𰎂𰎃𰎄𰎅𰎆𰎇𰎈𰎉𰎊𰎋𰎌𰎍𰎎𰎏𰎐𰎑𰎒𰎓𰎔𰎕𰎖𰎗𰎘𰎙𰎚𰎛𰎜𰎝𰎞𰎟𰎠𰎡𰎢𰎣𰎤𰎥𰎦𰎧𰎨𰎩𰎪𰎫𰎬𰎭𰎮𰎯𰎰𰎱𰎲𰎳𰎴𰎵𰎶𰎷𰎸𰎹𰎺𰎻𰎼𰎽𰎾𰎿𰏀𰏁𰏂𰏃𰏄𰏅𰏆𰏇𰏈𰏉𰏊𰏋𰏌𰏍𰏎𰏏𰏐𰏑𰏒𰏓𰏔𰏕𰏖𰏗𰏘𰏙𰏚𰏛𰏜𰏝𰏞𰏟𰏠𰏡𰏢𰏣𰏤𰏥𰏦𰏧𰏨𰏩𰏪𰏫𰏬𰏭𰏮𰏯𰏰𰏱𰏲𰏳𰏴𰏵𰏶𰏷𰏸𰏹𰏺𰏻𰏼𰏽𰏾𰏿">>
>>

\* <<code, unit>> for the units of a sequence of runs: the units of a run
\* are `width` apart in its text, the first of them at `first`
CodedUnits(runs, first, width) ==
    UNION {{<<runs[r][1] + k, SubSeq(runs[r][2], first + width * k, first + width * k)>> :
                k \in 0..(Len(runs[r][2]) \div width - 1)} : r \in 1..Len(runs)}

Units ==
    CodedUnits(UnitRuns, 1, 1) \cup CodedUnits(HighSurrogateRuns, 1, 2)
        \cup CodedUnits(LowSurrogateRuns, 2, 2)

\* the units whose code has bit k set
UnitsWithBit == [k \in 0..15 |-> {u[2] : u \in {v \in Units : (v[1] \div 2^k) % 2 = 1}}]

ListedUnits == {u[2] : u \in Units}
HighSurrogates == {u[2] : u \in {v \in Units : v[1] \in 55296..56319}}
LowSurrogates == {u[2] : u \in {v \in Units : v[1] \in 56320..57343}}

\* the code of a listed unit
RECURSIVE CodeUnitFrom(_, _)
CodeUnitFrom(u, k) ==
    IF k = 16 THEN 0
    ELSE (IF u \in UnitsWithBit[k] THEN 2^k ELSE 0) + CodeUnitFrom(u, k + 1)

CodeUnit(u) == CodeUnitFrom(u, 0)

\* a letter of the rows that UnitRuns leaves out
UnlistedLetter(c) == Len(c) = 1 /\ c \notin ListedUnits

\* `c as u32`, the scalar value of a char of the runs
CodePoint(c) ==
    IF Len(c) = 1 THEN CodeUnit(c)
    ELSE 65536 + (CodeUnit(SubSeq(c, 1, 1)) - 55296) * 1024
               + (CodeUnit(SubSeq(c, 2, 2)) - 56320)

\* str::chars: the chars of a text
CharAt(s, i) ==
    IF SubSeq(s, i, i) \in HighSurrogates THEN SubSeq(s, i, i + 1) ELSE SubSeq(s, i, i)

CharsFrom(s, starts) == [k \in 1..Len(starts) |-> CharAt(s, starts[k])] \o <<>>

Chars(s) ==
    CharsFrom(s, SelectSeq([i \in 1..Len(s) |-> i],
                           LAMBDA i : SubSeq(s, i, i) \notin LowSurrogates))

\* The tables of core::unicode (Unicode 17.0), each the sorted bounds of its
\* ranges: first code point, code point after the last, first, ...
White_Space == <<
    9, 14, 32, 33, 133, 134, 160, 161, 5760, 5761, 8192, 8203, 8232, 8234, 8239, 8240, 8287,
    8288, 12288, 12289
>>

Alphabetic == <<
    65, 91, 97, 123, 170, 171, 181, 182, 186, 187, 192, 215, 216, 247, 248, 706, 710, 722, 736,
    741, 748, 749, 750, 751, 837, 838, 867, 885, 886, 888, 890, 894, 895, 896, 902, 903, 904,
    907, 908, 909, 910, 930, 931, 1014, 1015, 1154, 1162, 1328, 1329, 1367, 1369, 1370, 1376,
    1417, 1456, 1470, 1471, 1472, 1473, 1475, 1476, 1478, 1479, 1480, 1488, 1515, 1519, 1523,
    1552, 1563, 1568, 1624, 1625, 1632, 1646, 1748, 1749, 1757, 1761, 1769, 1773, 1776, 1786,
    1789, 1791, 1792, 1808, 1856, 1869, 1970, 1994, 2027, 2036, 2038, 2042, 2043, 2048, 2072,
    2074, 2093, 2112, 2137, 2144, 2155, 2160, 2184, 2185, 2192, 2199, 2200, 2208, 2250, 2260,
    2272, 2275, 2282, 2288, 2364, 2365, 2381, 2382, 2385, 2389, 2404, 2417, 2436, 2437, 2445,
    2447, 2449, 2451, 2473, 2474, 2481, 2482, 2483, 2486, 2490, 2493, 2501, 2503, 2505, 2507,
    2509, 2510, 2511, 2519, 2520, 2524, 2526, 2527, 2532, 2544, 2546, 2556, 2557, 2561, 2564,
    2565, 2571, 2575, 2577, 2579, 2601, 2602, 2609, 2610, 2612, 2613, 2615, 2616, 2618, 2622,
    2627, 2631, 2633, 2635, 2637, 2641, 2642, 2649, 2653, 2654, 2655, 2672, 2678, 2689, 2692,
    2693, 2702, 2703, 2706, 2707, 2729, 2730, 2737, 2738, 2740, 2741, 2746, 2749, 2758, 2759,
    2762, 2763, 2765, 2768, 2769, 2784, 2788, 2809, 2813, 2817, 2820, 2821, 2829, 2831, 2833,
    2835, 2857, 2858, 2865, 2866, 2868, 2869, 2874, 2877, 2885, 2887, 2889, 2891, 2893, 2902,
    2904, 2908, 2910, 2911, 2916, 2929, 2930, 2946, 2948, 2949, 2955, 2958, 2961, 2962, 2966,
    2969, 2971, 2972, 2973, 2974, 2976, 2979, 2981, 2984, 2987, 2990, 3002, 3006, 3011, 3014,
    3017, 3018, 3021, 3024, 3025, 3031, 3032, 3072, 3085, 3086, 3089, 3090, 3113, 3114, 3130,
    3133, 3141, 3142, 3145, 3146, 3149, 3157, 3159, 3160, 3163, 3164, 3166, 3168, 3172, 3200,
    3204, 3205, 3213, 3214, 3217, 3218, 3241, 3242, 3252, 3253, 3258, 3261, 3269, 3270, 3273,
    3274, 3277, 3285, 3287, 3292, 3295, 3296, 3300, 3313, 3316, 3328, 3341, 3342, 3345, 3346,
    3387, 3389, 3397, 3398, 3401, 3402, 3405, 3406, 3407, 3412, 3416, 3423, 3428, 3450, 3456,
    3457, 3460, 3461, 3479, 3482, 3506, 3507, 3516, 3517, 3518, 3520, 3527, 3535, 3541, 3542,
    3543, 3544, 3552, 3570, 3572, 3585, 3643, 3648, 3655, 3661, 3662, 3713, 3715, 3716, 3717,
    3718, 3723, 3724, 3748, 3749, 3750, 3751, 3770, 3771, 3774, 3776, 3781, 3782, 3783, 3789,
    3790, 3804, 3808, 3840, 3841, 3904, 3912, 3913, 3949, 3953, 3972, 3976, 3992, 3993, 4029,
    4096, 4151, 4152, 4153, 4155, 4160, 4176, 4240, 4250, 4254, 4256, 4294, 4295, 4296, 4301,
    4302, 4304, 4347, 4348, 4681, 4682, 4686, 4688, 4695, 4696, 4697, 4698, 4702, 4704, 4745,
    4746, 4750, 4752, 4785, 4786, 4790, 4792, 4799, 4800, 4801, 4802, 4806, 4808, 4823, 4824,
    4881, 4882, 4886, 4888, 4955, 4992, 5008, 5024, 5110, 5112, 5118, 5121, 5741, 5743, 5760,
    5761, 5787, 5792, 5867, 5870, 5881, 5888, 5908, 5919, 5940, 5952, 5972, 5984, 5997, 5998,
    6001, 6002, 6004, 6016, 6068, 6070, 6089, 6103, 6104, 6108, 6109, 6176, 6265, 6272, 6315,
    6320, 6390, 6400, 6431, 6432, 6444, 6448, 6457, 6480, 6510, 6512, 6517, 6528, 6572, 6576,
    6602, 6656, 6684, 6688, 6751, 6753, 6773, 6823, 6824, 6847, 6849, 6860, 6863, 6912, 6964,
    6965, 6980, 6981, 6989, 7040, 7082, 7084, 7088, 7098, 7142, 7143, 7154, 7168, 7223, 7245,
    7248, 7258, 7294, 7296, 7307, 7312, 7355, 7357, 7360, 7401, 7405, 7406, 7412, 7413, 7415,
    7418, 7419, 7424, 7616, 7635, 7669, 7680, 7958, 7960, 7966, 7968, 8006, 8008, 8014, 8016,
    8024, 8025, 8026, 8027, 8028, 8029, 8030, 8031, 8062, 8064, 8117, 8118, 8125, 8126, 8127,
    8130, 8133, 8134, 8141, 8144, 8148, 8150, 8156, 8160, 8173, 8178, 8181, 8182, 8189, 8305,
    8306, 8319, 8320, 8336, 8349, 8450, 8451, 8455, 8456, 8458, 8468, 8469, 8470, 8473, 8478,
    8484, 8485, 8486, 8487, 8488, 8489, 8490, 8494, 8495, 8506, 8508, 8512, 8517, 8522, 8526,
    8527, 8544, 8585, 9398, 9450, 11264, 11493, 11499, 11503, 11506, 11508, 11520, 11558,
    11559, 11560, 11565, 11566, 11568, 11624, 11631, 11632, 11648, 11671, 11680, 11687, 11688,
    11695, 11696, 11703, 11704, 11711, 11712, 11719, 11720, 11727, 11728, 11735, 11736, 11743,
    11744, 11776, 11823, 11824, 12293, 12296, 12321, 12330, 12337, 12342, 12344, 12349, 12353,
    12439, 12445, 12448, 12449, 12539, 12540, 12544, 12549, 12592, 12593, 12687, 12704, 12736,
    12784, 12800, 13312, 19904, 19968, 42125, 42192, 42238, 42240, 42509, 42512, 42528, 42538,
    42540, 42560, 42607, 42612, 42620, 42623, 42736, 42775, 42784, 42786, 42889, 42891, 42973,
    42993, 43014, 43015, 43048, 43072, 43124, 43136, 43204, 43205, 43206, 43250, 43256, 43259,
    43260, 43261, 43264, 43274, 43307, 43312, 43347, 43360, 43389, 43392, 43443, 43444, 43456,
    43471, 43472, 43488, 43504, 43514, 43519, 43520, 43575, 43584, 43598, 43616, 43639, 43642,
    43711, 43712, 43713, 43714, 43715, 43739, 43742, 43744, 43760, 43762, 43766, 43777, 43783,
    43785, 43791, 43793, 43799, 43808, 43815, 43816, 43823, 43824, 43867, 43868, 43882, 43888,
    44011, 44032, 55204, 55216, 55239, 55243, 55292, 63744, 64110, 64112, 64218, 64256, 64263,
    64275, 64280, 64285, 64297, 64298, 64311, 64312, 64317, 64318, 64319, 64320, 64322, 64323,
    64325, 64326, 64434, 64467, 64830, 64848, 64912, 64914, 64968, 65008, 65020, 65136, 65141,
    65142, 65277, 65313, 65339, 65345, 65371, 65382, 65471, 65474, 65480, 65482, 65488, 65490,
    65496, 65498, 65501, 65536, 65548, 65549, 65575, 65576, 65595, 65596, 65598, 65599, 65614,
    65616, 65630, 65664, 65787, 65856, 65909, 66176, 66205, 66208, 66257, 66304, 66336, 66349,
    66379, 66384, 66427, 66432, 66462, 66464, 66500, 66504, 66512, 66513, 66518, 66560, 66718,
    66736, 66772, 66776, 66812, 66816, 66856, 66864, 66916, 66928, 66939, 66940, 66955, 66956,
    66963, 66964, 66966, 66967, 66978, 66979, 66994, 66995, 67002, 67003, 67005, 67008, 67060,
    67072, 67383, 67392, 67414, 67424, 67432, 67456, 67462, 67463, 67505, 67506, 67515, 67584,
    67590, 67592, 67593, 67594, 67638, 67639, 67641, 67644, 67645, 67647, 67670, 67680, 67703,
    67712, 67743, 67808, 67827, 67828, 67830, 67840, 67862, 67872, 67898, 67904, 67930, 67968,
    68024, 68030, 68032, 68096, 68100, 68101, 68103, 68108, 68116, 68117, 68120, 68121, 68150,
    68192, 68221, 68224, 68253, 68288, 68296, 68297, 68325, 68352, 68406, 68416, 68438, 68448,
    68467, 68480, 68498, 68608, 68681, 68736, 68787, 68800, 68851, 68864, 68904, 68938, 68966,
    68969, 68970, 68975, 68998, 69248, 69290, 69291, 69293, 69296, 69298, 69314, 69320, 69372,
    69373, 69376, 69405, 69415, 69416, 69424, 69446, 69488, 69506, 69552, 69573, 69600, 69623,
    69632, 69702, 69745, 69750, 69760, 69817, 69826, 69827, 69840, 69865, 69888, 69939, 69956,
    69960, 69968, 70003, 70006, 70007, 70016, 70080, 70081, 70085, 70094, 70096, 70106, 70107,
    70108, 70109, 70144, 70162, 70163, 70197, 70199, 70200, 70206, 70210, 70272, 70279, 70280,
    70281, 70282, 70286, 70287, 70302, 70303, 70313, 70320, 70377, 70400, 70404, 70405, 70413,
    70415, 70417, 70419, 70441, 70442, 70449, 70450, 70452, 70453, 70458, 70461, 70469, 70471,
    70473, 70475, 70477, 70480, 70481, 70487, 70488, 70493, 70500, 70528, 70538, 70539, 70540,
    70542, 70543, 70544, 70582, 70583, 70593, 70594, 70595, 70597, 70598, 70599, 70603, 70604,
    70606, 70609, 70610, 70611, 70612, 70656, 70722, 70723, 70726, 70727, 70731, 70751, 70754,
    70784, 70850, 70852, 70854, 70855, 70856, 71040, 71094, 71096, 71103, 71128, 71134, 71168,
    71231, 71232, 71233, 71236, 71237, 71296, 71350, 71352, 71353, 71424, 71451, 71453, 71467,
    71488, 71495, 71680, 71737, 71840, 71904, 71935, 71943, 71945, 71946, 71948, 71956, 71957,
    71959, 71960, 71990, 71991, 71993, 71995, 71997, 71999, 72003, 72096, 72104, 72106, 72152,
    72154, 72160, 72161, 72162, 72163, 72165, 72192, 72243, 72245, 72255, 72272, 72344, 72349,
    72350, 72368, 72441, 72544, 72552, 72640, 72673, 72704, 72713, 72714, 72759, 72760, 72767,
    72768, 72769, 72818, 72848, 72850, 72872, 72873, 72887, 72960, 72967, 72968, 72970, 72971,
    73015, 73018, 73019, 73020, 73022, 73023, 73026, 73027, 73028, 73030, 73032, 73056, 73062,
    73063, 73065, 73066, 73103, 73104, 73106, 73107, 73111, 73112, 73113, 73136, 73180, 73440,
    73463, 73472, 73489, 73490, 73531, 73534, 73537, 73648, 73649, 73728, 74650, 74752, 74863,
    74880, 75076, 77712, 77809, 77824, 78896, 78913, 78919, 78944, 82939, 82944, 83527, 90368,
    90415, 92160, 92729, 92736, 92767, 92784, 92863, 92880, 92910, 92928, 92976, 92992, 92996,
    93027, 93048, 93053, 93072, 93504, 93549, 93760, 93824, 93856, 93881, 93883, 93908, 93952,
    94027, 94031, 94088, 94095, 94112, 94176, 94178, 94179, 94180, 94192, 94199, 94208, 101590,
    101631, 101663, 101760, 101875, 110576, 110580, 110581, 110588, 110589, 110591, 110592,
    110883, 110898, 110899, 110928, 110931, 110933, 110934, 110948, 110952, 110960, 111356,
    113664, 113771, 113776, 113789, 113792, 113801, 113808, 113818, 113822, 113823, 119808,
    119893, 119894, 119965, 119966, 119968, 119970, 119971, 119973, 119975, 119977, 119981,
    119982, 119994, 119995, 119996, 119997, 120004, 120005, 120070, 120071, 120075, 120077,
    120085, 120086, 120093, 120094, 120122, 120123, 120127, 120128, 120133, 120134, 120135,
    120138, 120145, 120146, 120486, 120488, 120513, 120514, 120539, 120540, 120571, 120572,
    120597, 120598, 120629, 120630, 120655, 120656, 120687, 120688, 120713, 120714, 120745,
    120746, 120771, 120772, 120780, 122624, 122655, 122661, 122667, 122880, 122887, 122888,
    122905, 122907, 122914, 122915, 122917, 122918, 122923, 122928, 122990, 123023, 123024,
    123136, 123181, 123191, 123198, 123214, 123215, 123536, 123566, 123584, 123628, 124112,
    124140, 124368, 124398, 124400, 124401, 124608, 124639, 124640, 124662, 124670, 124672,
    124896, 124903, 124904, 124908, 124909, 124911, 124912, 124927, 124928, 125125, 125184,
    125252, 125255, 125256, 125259, 125260, 126464, 126468, 126469, 126496, 126497, 126499,
    126500, 126501, 126503, 126504, 126505, 126515, 126516, 126520, 126521, 126522, 126523,
    126524, 126530, 126531, 126535, 126536, 126537, 126538, 126539, 126540, 126541, 126544,
    126545, 126547, 126548, 126549, 126551, 126552, 126553, 126554, 126555, 126556, 126557,
    126558, 126559, 126560, 126561, 126563, 126564, 126565, 126567, 126571, 126572, 126579,
    126580, 126584, 126585, 126589, 126590, 126591, 126592, 126602, 126603, 126620, 126625,
    126628, 126629, 126634, 126635, 126652, 127280, 127306, 127312, 127338, 127344, 127370,
    131072, 173792, 173824, 178206, 178208, 183982, 183984, 191457, 191472, 192094, 194560,
    195102, 196608, 201547, 201552, 210042
>>

\* the general categories Nd, Nl and No
Numeric == <<
    48, 58, 178, 180, 185, 186, 188, 191, 1632, 1642, 1776, 1786, 1984, 1994, 2406, 2416, 2534,
    2544, 2548, 2554, 2662, 2672, 2790, 2800, 2918, 2928, 2930, 2936, 3046, 3059, 3174, 3184,
    3192, 3199, 3302, 3312, 3416, 3423, 3430, 3449, 3558, 3568, 3664, 3674, 3792, 3802, 3872,
    3892, 4160, 4170, 4240, 4250, 4969, 4989, 5870, 5873, 6112, 6122, 6128, 6138, 6160, 6170,
    6470, 6480, 6608, 6619, 6784, 6794, 6800, 6810, 6992, 7002, 7088, 7098, 7232, 7242, 7248,
    7258, 8304, 8305, 8308, 8314, 8320, 8330, 8528, 8579, 8581, 8586, 9312, 9372, 9450, 9472,
    10102, 10132, 11517, 11518, 12295, 12296, 12321, 12330, 12344, 12347, 12690, 12694, 12832,
    12842, 12872, 12880, 12881, 12896, 12928, 12938, 12977, 12992, 42528, 42538, 42726, 42736,
    43056, 43062, 43216, 43226, 43264, 43274, 43472, 43482, 43504, 43514, 43600, 43610, 44016,
    44026, 65296, 65306, 65799, 65844, 65856, 65913, 65930, 65932, 66273, 66300, 66336, 66340,
    66369, 66370, 66378, 66379, 66513, 66518, 66720, 66730, 67672, 67680, 67705, 67712, 67751,
    67760, 67835, 67840, 67862, 67868, 68028, 68030, 68032, 68048, 68050, 68096, 68160, 68169,
    68221, 68223, 68253, 68256, 68331, 68336, 68440, 68448, 68472, 68480, 68521, 68528, 68858,
    68864, 68912, 68922, 68928, 68938, 69216, 69247, 69405, 69415, 69457, 69461, 69573, 69580,
    69714, 69744, 69872, 69882, 69942, 69952, 70096, 70106, 70113, 70133, 70384, 70394, 70736,
    70746, 70864, 70874, 71248, 71258, 71360, 71370, 71376, 71396, 71472, 71484, 71904, 71923,
    72016, 72026, 72688, 72698, 72784, 72813, 73040, 73050, 73120, 73130, 73184, 73194, 73552,
    73562, 73664, 73685, 74752, 74863, 90416, 90426, 92768, 92778, 92864, 92874, 93008, 93018,
    93019, 93026, 93552, 93562, 93824, 93847, 94196, 94199, 118000, 118010, 119488, 119508,
    119520, 119540, 119648, 119673, 120782, 120832, 123200, 123210, 123632, 123642, 124144,
    124154, 124401, 124411, 125127, 125136, 125264, 125274, 126065, 126124, 126125, 126128,
    126129, 126133, 126209, 126254, 126255, 126270, 127232, 127245, 130032, 130042
>>

Grapheme_Extend == <<
    768, 880, 1155, 1162, 1425, 1470, 1471, 1472, 1473, 1475, 1476, 1478, 1479, 1480, 1552,
    1563, 1611, 1632, 1648, 1649, 1750, 1757, 1759, 1765, 1767, 1769, 1770, 1774, 1809, 1810,
    1840, 1867, 1958, 1969, 2027, 2036, 2045, 2046, 2070, 2074, 2075, 2084, 2085, 2088, 2089,
    2094, 2137, 2140, 2199, 2208, 2250, 2274, 2275, 2307, 2362, 2363, 2364, 2365, 2369, 2377,
    2381, 2382, 2385, 2392, 2402, 2404, 2433, 2434, 2492, 2493, 2494, 2495, 2497, 2501, 2509,
    2510, 2519, 2520, 2530, 2532, 2558, 2559, 2561, 2563, 2620, 2621, 2625, 2627, 2631, 2633,
    2635, 2638, 2641, 2642, 2672, 2674, 2677, 2678, 2689, 2691, 2748, 2749, 2753, 2758, 2759,
    2761, 2765, 2766, 2786, 2788, 2810, 2816, 2817, 2818, 2876, 2877, 2878, 2880, 2881, 2885,
    2893, 2894, 2901, 2904, 2914, 2916, 2946, 2947, 3006, 3007, 3008, 3009, 3021, 3022, 3031,
    3032, 3072, 3073, 3076, 3077, 3132, 3133, 3134, 3137, 3142, 3145, 3146, 3150, 3157, 3159,
    3170, 3172, 3201, 3202, 3260, 3261, 3263, 3265, 3266, 3267, 3270, 3273, 3274, 3278, 3285,
    3287, 3298, 3300, 3328, 3330, 3387, 3389, 3390, 3391, 3393, 3397, 3405, 3406, 3415, 3416,
    3426, 3428, 3457, 3458, 3530, 3531, 3535, 3536, 3538, 3541, 3542, 3543, 3551, 3552, 3633,
    3634, 3636, 3643, 3655, 3663, 3761, 3762, 3764, 3773, 3784, 3791, 3864, 3866, 3893, 3894,
    3895, 3896, 3897, 3898, 3953, 3967, 3968, 3973, 3974, 3976, 3981, 3992, 3993, 4029, 4038,
    4039, 4141, 4145, 4146, 4152, 4153, 4155, 4157, 4159, 4184, 4186, 4190, 4193, 4209, 4213,
    4226, 4227, 4229, 4231, 4237, 4238, 4253, 4254, 4957, 4960, 5906, 5910, 5938, 5941, 5970,
    5972, 6002, 6004, 6068, 6070, 6071, 6078, 6086, 6087, 6089, 6100, 6109, 6110, 6155, 6158,
    6159, 6160, 6277, 6279, 6313, 6314, 6432, 6435, 6439, 6441, 6450, 6451, 6457, 6460, 6679,
    6681, 6683, 6684, 6742, 6743, 6744, 6751, 6752, 6753, 6754, 6755, 6757, 6765, 6771, 6781,
    6783, 6784, 6832, 6878, 6880, 6892, 6912, 6916, 6964, 6974, 6978, 6981, 7019, 7028, 7040,
    7042, 7074, 7078, 7080, 7086, 7142, 7143, 7144, 7146, 7149, 7150, 7151, 7156, 7212, 7220,
    7222, 7224, 7376, 7379, 7380, 7393, 7394, 7401, 7405, 7406, 7412, 7413, 7416, 7418, 7616,
    7680, 8204, 8205, 8400, 8433, 11503, 11506, 11647, 11648, 11744, 11776, 12330, 12336,
    12441, 12443, 42607, 42611, 42612, 42622, 42654, 42656, 42736, 42738, 43010, 43011, 43014,
    43015, 43019, 43020, 43045, 43047, 43052, 43053, 43204, 43206, 43232, 43250, 43263, 43264,
    43302, 43310, 43335, 43346, 43347, 43348, 43392, 43395, 43443, 43444, 43446, 43450, 43452,
    43454, 43456, 43457, 43493, 43494, 43561, 43567, 43569, 43571, 43573, 43575, 43587, 43588,
    43596, 43597, 43644, 43645, 43696, 43697, 43698, 43701, 43703, 43705, 43710, 43712, 43713,
    43714, 43756, 43758, 43766, 43767, 44005, 44006, 44008, 44009, 44013, 44014, 64286, 64287,
    65024, 65040, 65056, 65072, 65438, 65440, 66045, 66046, 66272, 66273, 66422, 66427, 68097,
    68100, 68101, 68103, 68108, 68112, 68152, 68155, 68159, 68160, 68325, 68327, 68900, 68904,
    68969, 68974, 69291, 69293, 69370, 69376, 69446, 69457, 69506, 69510, 69633, 69634, 69688,
    69703, 69744, 69745, 69747, 69749, 69759, 69762, 69811, 69815, 69817, 69819, 69826, 69827,
    69888, 69891, 69927, 69932, 69933, 69941, 70003, 70004, 70016, 70018, 70070, 70079, 70080,
    70081, 70089, 70093, 70095, 70096, 70191, 70194, 70196, 70200, 70206, 70207, 70209, 70210,
    70367, 70368, 70371, 70379, 70400, 70402, 70459, 70461, 70462, 70463, 70464, 70465, 70477,
    70478, 70487, 70488, 70502, 70509, 70512, 70517, 70584, 70585, 70587, 70593, 70594, 70595,
    70597, 70598, 70599, 70602, 70606, 70609, 70610, 70611, 70625, 70627, 70712, 70720, 70722,
    70725, 70726, 70727, 70750, 70751, 70832, 70833, 70835, 70841, 70842, 70843, 70845, 70846,
    70847, 70849, 70850, 70852, 71087, 71088, 71090, 71094, 71100, 71102, 71103, 71105, 71132,
    71134, 71219, 71227, 71229, 71230, 71231, 71233, 71339, 71340, 71341, 71342, 71344, 71352,
    71453, 71456, 71458, 71462, 71463, 71468, 71727, 71736, 71737, 71739, 71984, 71985, 71995,
    71999, 72003, 72004, 72148, 72152, 72154, 72156, 72160, 72161, 72193, 72203, 72243, 72249,
    72251, 72255, 72263, 72264, 72273, 72279, 72281, 72284, 72330, 72343, 72344, 72346, 72544,
    72545, 72546, 72549, 72550, 72551, 72752, 72759, 72760, 72766, 72767, 72768, 72850, 72872,
    72874, 72881, 72882, 72884, 72885, 72887, 73009, 73015, 73018, 73019, 73020, 73022, 73023,
    73030, 73031, 73032, 73104, 73106, 73109, 73110, 73111, 73112, 73459, 73461, 73472, 73474,
    73526, 73531, 73536, 73539, 73562, 73563, 78912, 78913, 78919, 78934, 90398, 90410, 90413,
    90416, 92912, 92917, 92976, 92983, 93539, 93540, 93543, 93547, 94031, 94032, 94095, 94099,
    94180, 94181, 94192, 94194, 113821, 113823, 118528, 118574, 118576, 118599, 119141, 119142,
    119143, 119146, 119149, 119155, 119163, 119171, 119173, 119180, 119210, 119214, 119362,
    119365, 121344, 121399, 121403, 121453, 121461, 121462, 121476, 121477, 121499, 121504,
    121505, 121520, 122880, 122887, 122888, 122905, 122907, 122914, 122915, 122917, 122918,
    122923, 123023, 123024, 123184, 123191, 123566, 123567, 123628, 123632, 124140, 124144,
    124398, 124400, 124643, 124644, 124646, 124647, 124654, 124656, 124661, 124662, 125136,
    125143, 125252, 125259, 917536, 917632, 917760, 918000
>>

\* core::unicode::printable: the categories Cc, Cf, Cs, Co, Cn, Zl, Zp and
\* Zs but the space
NotPrintable == <<
    0, 32, 127, 161, 173, 174, 888, 890, 896, 900, 907, 908, 909, 910, 930, 931, 1328, 1329,
    1367, 1369, 1419, 1421, 1424, 1425, 1480, 1488, 1515, 1519, 1525, 1542, 1564, 1565, 1757,
    1758, 1806, 1808, 1867, 1869, 1970, 1984, 2043, 2045, 2094, 2096, 2111, 2112, 2140, 2142,
    2143, 2144, 2155, 2160, 2192, 2199, 2274, 2275, 2436, 2437, 2445, 2447, 2449, 2451, 2473,
    2474, 2481, 2482, 2483, 2486, 2490, 2492, 2501, 2503, 2505, 2507, 2511, 2519, 2520, 2524,
    2526, 2527, 2532, 2534, 2559, 2561, 2564, 2565, 2571, 2575, 2577, 2579, 2601, 2602, 2609,
    2610, 2612, 2613, 2615, 2616, 2618, 2620, 2621, 2622, 2627, 2631, 2633, 2635, 2638, 2641,
    2642, 2649, 2653, 2654, 2655, 2662, 2679, 2689, 2692, 2693, 2702, 2703, 2706, 2707, 2729,
    2730, 2737, 2738, 2740, 2741, 2746, 2748, 2758, 2759, 2762, 2763, 2766, 2768, 2769, 2784,
    2788, 2790, 2802, 2809, 2816, 2817, 2820, 2821, 2829, 2831, 2833, 2835, 2857, 2858, 2865,
    2866, 2868, 2869, 2874, 2876, 2885, 2887, 2889, 2891, 2894, 2901, 2904, 2908, 2910, 2911,
    2916, 2918, 2936, 2946, 2948, 2949, 2955, 2958, 2961, 2962, 2966, 2969, 2971, 2972, 2973,
    2974, 2976, 2979, 2981, 2984, 2987, 2990, 3002, 3006, 3011, 3014, 3017, 3018, 3022, 3024,
    3025, 3031, 3032, 3046, 3067, 3072, 3085, 3086, 3089, 3090, 3113, 3114, 3130, 3132, 3141,
    3142, 3145, 3146, 3150, 3157, 3159, 3160, 3163, 3164, 3166, 3168, 3172, 3174, 3184, 3191,
    3213, 3214, 3217, 3218, 3241, 3242, 3252, 3253, 3258, 3260, 3269, 3270, 3273, 3274, 3278,
    3285, 3287, 3292, 3295, 3296, 3300, 3302, 3312, 3313, 3316, 3328, 3341, 3342, 3345, 3346,
    3397, 3398, 3401, 3402, 3408, 3412, 3428, 3430, 3456, 3457, 3460, 3461, 3479, 3482, 3506,
    3507, 3516, 3517, 3518, 3520, 3527, 3530, 3531, 3535, 3541, 3542, 3543, 3544, 3552, 3558,
    3568, 3570, 3573, 3585, 3643, 3647, 3676, 3713, 3715, 3716, 3717, 3718, 3723, 3724, 3748,
    3749, 3750, 3751, 3774, 3776, 3781, 3782, 3783, 3784, 3791, 3792, 3802, 3804, 3808, 3840,
    3912, 3913, 3949, 3953, 3992, 3993, 4029, 4030, 4045, 4046, 4059, 4096, 4294, 4295, 4296,
    4301, 4302, 4304, 4681, 4682, 4686, 4688, 4695, 4696, 4697, 4698, 4702, 4704, 4745, 4746,
    4750, 4752, 4785, 4786, 4790, 4792, 4799, 4800, 4801, 4802, 4806, 4808, 4823, 4824, 4881,
    4882, 4886, 4888, 4955, 4957, 4989, 4992, 5018, 5024, 5110, 5112, 5118, 5120, 5760, 5761,
    5789, 5792, 5881, 5888, 5910, 5919, 5943, 5952, 5972, 5984, 5997, 5998, 6001, 6002, 6004,
    6016, 6110, 6112, 6122, 6128, 6138, 6144, 6158, 6159, 6170, 6176, 6265, 6272, 6315, 6320,
    6390, 6400, 6431, 6432, 6444, 6448, 6460, 6464, 6465, 6468, 6510, 6512, 6517, 6528, 6572,
    6576, 6602, 6608, 6619, 6622, 6684, 6686, 6751, 6752, 6781, 6783, 6794, 6800, 6810, 6816,
    6830, 6832, 6878, 6880, 6892, 6912, 6989, 6990, 7156, 7164, 7224, 7227, 7242, 7245, 7307,
    7312, 7355, 7357, 7368, 7376, 7419, 7424, 7958, 7960, 7966, 7968, 8006, 8008, 8014, 8016,
    8024, 8025, 8026, 8027, 8028, 8029, 8030, 8031, 8062, 8064, 8117, 8118, 8133, 8134, 8148,
    8150, 8156, 8157, 8176, 8178, 8181, 8182, 8191, 8208, 8232, 8240, 8287, 8304, 8306, 8308,
    8335, 8336, 8349, 8352, 8386, 8400, 8433, 8448, 8588, 8592, 9258, 9280, 9291, 9312, 11124,
    11126, 11508, 11513, 11558, 11559, 11560, 11565, 11566, 11568, 11624, 11631, 11633, 11647,
    11671, 11680, 11687, 11688, 11695, 11696, 11703, 11704, 11711, 11712, 11719, 11720, 11727,
    11728, 11735, 11736, 11743, 11744, 11870, 11904, 11930, 11931, 12020, 12032, 12246, 12272,
    12288, 12289, 12352, 12353, 12439, 12441, 12544, 12549, 12592, 12593, 12687, 12688, 12774,
    12783, 12831, 12832, 42125, 42128, 42183, 42192, 42540, 42560, 42744, 42752, 42973, 42993,
    43053, 43056, 43066, 43072, 43128, 43136, 43206, 43214, 43226, 43232, 43348, 43359, 43389,
    43392, 43470, 43471, 43482, 43486, 43519, 43520, 43575, 43584, 43598, 43600, 43610, 43612,
    43715, 43739, 43767, 43777, 43783, 43785, 43791, 43793, 43799, 43808, 43815, 43816, 43823,
    43824, 43884, 43888, 44014, 44016, 44026, 44032, 55204, 55216, 55239, 55243, 55292, 63744,
    64110, 64112, 64218, 64256, 64263, 64275, 64280, 64285, 64311, 64312, 64317, 64318, 64319,
    64320, 64322, 64323, 64325, 64326, 64976, 65008, 65050, 65056, 65107, 65108, 65127, 65128,
    65132, 65136, 65141, 65142, 65277, 65281, 65471, 65474, 65480, 65482, 65488, 65490, 65496,
    65498, 65501, 65504, 65511, 65512, 65519, 65532, 65534, 65536, 65548, 65549, 65575, 65576,
    65595, 65596, 65598, 65599, 65614, 65616, 65630, 65664, 65787, 65792, 65795, 65799, 65844,
    65847, 65935, 65936, 65949, 65952, 65953, 66000, 66046, 66176, 66205, 66208, 66257, 66272,
    66300, 66304, 66340, 66349, 66379, 66384, 66427, 66432, 66462, 66463, 66500, 66504, 66518,
    66560, 66718, 66720, 66730, 66736, 66772, 66776, 66812, 66816, 66856, 66864, 66916, 66927,
    66939, 66940, 66955, 66956, 66963, 66964, 66966, 66967, 66978, 66979, 66994, 66995, 67002,
    67003, 67005, 67008, 67060, 67072, 67383, 67392, 67414, 67424, 67432, 67456, 67462, 67463,
    67505, 67506, 67515, 67584, 67590, 67592, 67593, 67594, 67638, 67639, 67641, 67644, 67645,
    67647, 67670, 67671, 67743, 67751, 67760, 67808, 67827, 67828, 67830, 67835, 67868, 67871,
    67898, 67903, 67930, 67968, 68024, 68028, 68048, 68050, 68100, 68101, 68103, 68108, 68116,
    68117, 68120, 68121, 68150, 68152, 68155, 68159, 68169, 68176, 68185, 68192, 68256, 68288,
    68327, 68331, 68343, 68352, 68406, 68409, 68438, 68440, 68467, 68472, 68498, 68505, 68509,
    68521, 68528, 68608, 68681, 68736, 68787, 68800, 68851, 68858, 68904, 68912, 68922, 68928,
    68966, 68969, 68998, 69006, 69008, 69216, 69247, 69248, 69290, 69291, 69294, 69296, 69298,
    69314, 69320, 69328, 69337, 69370, 69416, 69424, 69466, 69488, 69514, 69552, 69580, 69600,
    69623, 69632, 69710, 69714, 69750, 69759, 69821, 69822, 69827, 69840, 69865, 69872, 69882,
    69888, 69941, 69942, 69960, 69968, 70007, 70016, 70112, 70113, 70133, 70144, 70162, 70163,
    70210, 70272, 70279, 70280, 70281, 70282, 70286, 70287, 70302, 70303, 70314, 70320, 70379,
    70384, 70394, 70400, 70404, 70405, 70413, 70415, 70417, 70419, 70441, 70442, 70449, 70450,
    70452, 70453, 70458, 70459, 70469, 70471, 70473, 70475, 70478, 70480, 70481, 70487, 70488,
    70493, 70500, 70502, 70509, 70512, 70517, 70528, 70538, 70539, 70540, 70542, 70543, 70544,
    70582, 70583, 70593, 70594, 70595, 70597, 70598, 70599, 70603, 70604, 70614, 70615, 70617,
    70625, 70627, 70656, 70748, 70749, 70754, 70784, 70856, 70864, 70874, 71040, 71094, 71096,
    71134, 71168, 71237, 71248, 71258, 71264, 71277, 71296, 71354, 71360, 71370, 71376, 71396,
    71424, 71451, 71453, 71468, 71472, 71495, 71680, 71740, 71840, 71923, 71935, 71943, 71945,
    71946, 71948, 71956, 71957, 71959, 71960, 71990, 71991, 71993, 71995, 72007, 72016, 72026,
    72096, 72104, 72106, 72152, 72154, 72165, 72192, 72264, 72272, 72355, 72368, 72441, 72448,
    72458, 72544, 72552, 72640, 72674, 72688, 72698, 72704, 72713, 72714, 72759, 72760, 72774,
    72784, 72813, 72816, 72848, 72850, 72872, 72873, 72887, 72960, 72967, 72968, 72970, 72971,
    73015, 73018, 73019, 73020, 73022, 73023, 73032, 73040, 73050, 73056, 73062, 73063, 73065,
    73066, 73103, 73104, 73106, 73107, 73113, 73120, 73130, 73136, 73180, 73184, 73194, 73440,
    73465, 73472, 73489, 73490, 73531, 73534, 73563, 73648, 73649, 73664, 73714, 73727, 74650,
    74752, 74863, 74864, 74869, 74880, 75076, 77712, 77811, 77824, 78896, 78912, 78934, 78944,
    82939, 82944, 83527, 90368, 90426, 92160, 92729, 92736, 92767, 92768, 92778, 92782, 92863,
    92864, 92874, 92880, 92910, 92912, 92918, 92928, 92998, 93008, 93018, 93019, 93026, 93027,
    93048, 93053, 93072, 93504, 93562, 93760, 93851, 93856, 93881, 93883, 93908, 93952, 94027,
    94031, 94088, 94095, 94112, 94176, 94181, 94192, 94199, 94208, 101590, 101631, 101663,
    101760, 101875, 110576, 110580, 110581, 110588, 110589, 110591, 110592, 110883, 110898,
    110899, 110928, 110931, 110933, 110934, 110948, 110952, 110960, 111356, 113664, 113771,
    113776, 113789, 113792, 113801, 113808, 113818, 113820, 113824, 117760, 118013, 118016,
    118452, 118458, 118481, 118496, 118513, 118528, 118574, 118576, 118599, 118608, 118724,
    118784, 119030, 119040, 119079, 119081, 119155, 119163, 119275, 119296, 119366, 119488,
    119508, 119520, 119540, 119552, 119639, 119648, 119673, 119808, 119893, 119894, 119965,
    119966, 119968, 119970, 119971, 119973, 119975, 119977, 119981, 119982, 119994, 119995,
    119996, 119997, 120004, 120005, 120070, 120071, 120075, 120077, 120085, 120086, 120093,
    120094, 120122, 120123, 120127, 120128, 120133, 120134, 120135, 120138, 120145, 120146,
    120486, 120488, 120780, 120782, 121484, 121499, 121504, 121505, 121520, 122624, 122655,
    122661, 122667, 122880, 122887, 122888, 122905, 122907, 122914, 122915, 122917, 122918,
    122923, 122928, 122990, 123023, 123024, 123136, 123181, 123184, 123198, 123200, 123210,
    123214, 123216, 123536, 123567, 123584, 123642, 123647, 123648, 124112, 124154, 124368,
    124411, 124415, 124416, 124608, 124639, 124640, 124662, 124670, 124672, 124896, 124903,
    124904, 124908, 124909, 124911, 124912, 124927, 124928, 125125, 125127, 125143, 125184,
    125260, 125264, 125274, 125278, 125280, 126065, 126133, 126209, 126270, 126464, 126468,
    126469, 126496, 126497, 126499, 126500, 126501, 126503, 126504, 126505, 126515, 126516,
    126520, 126521, 126522, 126523, 126524, 126530, 126531, 126535, 126536, 126537, 126538,
    126539, 126540, 126541, 126544, 126545, 126547, 126548, 126549, 126551, 126552, 126553,
    126554, 126555, 126556, 126557, 126558, 126559, 126560, 126561, 126563, 126564, 126565,
    126567, 126571, 126572, 126579, 126580, 126584, 126585, 126589, 126590, 126591, 126592,
    126602, 126603, 126620, 126625, 126628, 126629, 126634, 126635, 126652, 126704, 126706,
    126976, 127020, 127024, 127124, 127136, 127151, 127153, 127168, 127169, 127184, 127185,
    127222, 127232, 127406, 127462, 127491, 127504, 127548, 127552, 127561, 127568, 127570,
    127584, 127590, 127744, 128729, 128732, 128749, 128752, 128765, 128768, 128986, 128992,
    129004, 129008, 129009, 129024, 129036, 129040, 129096, 129104, 129114, 129120, 129160,
    129168, 129198, 129200, 129212, 129216, 129218, 129232, 129241, 129280, 129624, 129632,
    129646, 129648, 129661, 129664, 129675, 129678, 129735, 129736, 129737, 129741, 129757,
    129759, 129771, 129775, 129785, 129792, 129939, 129940, 130043, 131072, 173792, 173824,
    178206, 178208, 183982, 183984, 191457, 191472, 192094, 194560, 195102, 196608, 201547,
    201552, 210042, 917760, 918000, 1114112
>>

\* how many of bounds[1..hi] are at most n, given that bounds[1..lo] are
RECURSIVE BoundsUpTo(_, _, _, _)
BoundsUpTo(n, bounds, lo, hi) ==
    IF lo = hi THEN lo
    ELSE IF bounds[(lo + hi + 1) \div 2] <= n
         THEN BoundsUpTo(n, bounds, (lo + hi + 1) \div 2, hi)
         ELSE BoundsUpTo(n, bounds, lo, (lo + hi + 1) \div 2 - 1)

\* n lies in a range of the table
InTable(n, bounds) == BoundsUpTo(n, bounds, 0, Len(bounds)) % 2 = 1

\* char::is_whitespace
is_whitespace(c) == ~UnlistedLetter(c) /\ InTable(CodePoint(c), White_Space)

\* char::is_alphabetic, char::is_numeric, char::is_alphanumeric
is_alphabetic(c) == UnlistedLetter(c) \/ InTable(CodePoint(c), Alphabetic)
is_numeric(c) == ~UnlistedLetter(c) /\ InTable(CodePoint(c), Numeric)
is_alphanumeric(c) == is_alphabetic(c) \/ is_numeric(c)

\* char::len_utf8
len_utf8_code(code) ==
    IF code < 128 THEN 1 ELSE IF code < 2048 THEN 2 ELSE IF code < 65536 THEN 3 ELSE 4

len_utf8(c) == IF UnlistedLetter(c) THEN 3 ELSE len_utf8_code(CodePoint(c))

\* the sum of len_utf8 over a sequence of chars
RECURSIVE Utf8LenOf(_, _, _)
Utf8LenOf(chars, lo, hi) ==
    IF lo > hi THEN 0
    ELSE IF lo = hi THEN len_utf8(chars[lo])
    ELSE Utf8LenOf(chars, lo, (lo + hi) \div 2) + Utf8LenOf(chars, (lo + hi) \div 2 + 1, hi)

LenOfChars(chars) == Utf8LenOf(chars, 1, Len(chars))

\* str::len: the length in bytes of the UTF-8 text
Utf8Len(s) == LenOfChars(Chars(s))

\* {:x} of a u32
RECURSIVE LowerHex(_)
LowerHex(n) ==
    (IF n < 16 THEN "" ELSE LowerHex(n \div 16))
        \o SubSeq("0123456789abcdef", (n % 16) + 1, (n % 16) + 1)

\* char::escape_unicode
escape_unicode(code) == "\\u{" \o LowerHex(code) \o "}"

\* the last three arms of char::escape_debug_ext: a Grapheme_Extend char, a
\* printable one, any other
escape_by_code(c, code) ==
    IF InTable(code, Grapheme_Extend) \/ InTable(code, NotPrintable)
    THEN escape_unicode(code)
    ELSE c

\* char::escape_debug_ext, what {:?} writes for one char: quote is the
\* delimiter it escapes (" inside a str, ' for a char)
escape_debug_ext(c, quote) ==
    CASE c = "\t" -> "\\t"
      [] c = "\r" -> "\\r"
      [] c = "\n" -> "\\n"
      [] c = "\\" -> "\\\\"
      [] c = quote -> "\\" \o c
      [] UnlistedLetter(c) -> c
      [] OTHER -> escape_by_code(c, CodePoint(c))

\* the chars of a str escaped as {:?} escapes them
RECURSIVE EscapedFrom(_, _, _)
EscapedFrom(chars, lo, hi) ==
    IF lo > hi THEN ""
    ELSE IF lo = hi THEN escape_debug_ext(chars[lo], "\"")
    ELSE EscapedFrom(chars, lo, (lo + hi) \div 2) \o EscapedFrom(chars, (lo + hi) \div 2 + 1, hi)

EscapedChars(chars) == EscapedFrom(chars, 1, Len(chars))

escape_debug_str(s) == EscapedChars(Chars(s))

\* {:?} of a String
StringDebug(s) == "\"" \o escape_debug_str(s) \o "\""

\* Token, one record shape for all variants: s is the text, the keyword, the
\* type or the operator; f the f64 of a Number; b the bool of a Boolean
Token(kind, s) == [kind |-> kind, s |-> s, f |-> Zero(FALSE), b |-> FALSE]
TokenNumber(x) == [Token("Number", "") EXCEPT !.f = x]
TokenBoolean(b) == [Token("Boolean", "") EXCEPT !.b = b]
TokenOperator(op) == Token("Operator", op)

\* Result<Token, String> of the tokenize_* functions, with the position of
\* the Lexer's current character afterwards
LexOk(token, i) == [err |-> "", token |-> token, pos |-> i]
LexErr(msg) == [err |-> msg, token |-> Token("", ""), pos |-> 0]

peek(src, i) == IF i <= Len(src) THEN src[i] ELSE NoChar

\* the String made of the characters of a sequence
RECURSIVE Text(_)
Text(chars) == IF chars = <<>> THEN "" ELSE chars[1] \o Text(Tail(chars))

\* the closures passed to consume_while
Holds(predicate, c) ==
    CASE predicate = "is_digit" -> c \in AsciiDigits
      [] predicate = "is_alphanumeric_or_underscore" ->
            is_alphanumeric(c) \/ c = "_"
      [] predicate = "not_quote" -> c # "\""
      [] predicate = "not_newline" -> c # "\n"

\* consume_while: the position of the first character from i on that fails
\* the predicate (the characters before it are the result)
RECURSIVE consume_while(_, _, _)
consume_while(src, i, predicate) ==
    IF i <= Len(src) /\ Holds(predicate, src[i])
    THEN consume_while(src, i + 1, predicate)
    ELSE i

DigitValue(c) ==
    CASE c = "0" -> 0 [] c = "1" -> 1 [] c = "2" -> 2 [] c = "3" -> 3 [] c = "4" -> 4
      [] c = "5" -> 5 [] c = "6" -> 6 [] c = "7" -> 7 [] c = "8" -> 8 [] c = "9" -> 9

\* the values of a sequence of digits
DigitValues(digits) == [j \in 1..Len(digits) |-> DigitValue(digits[j])]

\* the end of tokenize_number: the integer part is src[i1..i2), the decimal
\* part src(i2..i3) when a '.' follows it (i3 = i2 when none does);
\* num_str.parse::<f64>() is ParseF64 of the sign and the digits pushed
number_token(src, negative, i1, i2, i3) ==
    IF i2 = i1 /\ negative THEN LexErr("Expected digits after '-'")
    ELSE IF peek(src, i2) = "." /\ i3 = i2 + 1 THEN LexErr("Expected digits after '.'")
    ELSE IF peek(src, i2) # "." /\ i2 = i1
    THEN LexErr("Failed to parse number: cannot parse float from empty string")
    ELSE LexOk(TokenNumber(ParseF64(negative, DigitValues(SubSeq(src, i1, i2 - 1)),
                                    DigitValues(SubSeq(src, i2 + 1, i3 - 1)))), i3)

number_decimals(src, negative, i1, i2) ==
    number_token(src, negative, i1, i2,
                 IF peek(src, i2) = "." THEN consume_while(src, i2 + 1, "is_digit") ELSE i2)

number_digits(src, negative, i1) ==
    number_decimals(src, negative, i1, consume_while(src, i1, "is_digit"))

tokenize_number(src, i) ==
    number_digits(src, peek(src, i) = "-", IF peek(src, i) = "-" THEN i + 1 ELSE i)

\* src[i] is the opening quote
string_token(src, i, j) ==
    IF peek(src, j) = "\"" THEN LexOk(Token("String", Text(SubSeq(src, i + 1, j - 1))), j + 1)
    ELSE IF peek(src, j) # NoChar
    THEN LexErr("Unexpected character in string: " \o peek(src, j))
    ELSE LexErr("Unexpected end of input")

tokenize_string(src, i) == string_token(src, i, consume_while(src, i + 1, "not_quote"))

identifier_token(ident_str, j) ==
    LexOk(CASE ident_str = "fun" -> Token("Keyword", "Fun")
            [] ident_str = "return" -> Token("Keyword", "Return")
            [] ident_str = "if" -> Token("Keyword", "If")
            [] ident_str = "else" -> Token("Keyword", "Else")
            [] ident_str = "str" -> Token("Type", "Str")
            [] ident_str = "num" -> Token("Type", "Num")
            [] ident_str = "bool" -> Token("Type", "Bool")
            [] ident_str = "true" -> TokenBoolean(TRUE)
            [] ident_str = "false" -> TokenBoolean(FALSE)
            [] OTHER -> Token("Identifier", ident_str), j)

identifier_end(src, i, j) == identifier_token(Text(SubSeq(src, i, j - 1)), j)

tokenize_identifier(src, i) ==
    identifier_end(src, i, consume_while(src, i, "is_alphanumeric_or_underscore"))

\* {:?} of a char and of an Option<char>
CharDebug(c) == "'" \o escape_debug_ext(c, "'") \o "'"

OptionCharDebug(c) == IF c = NoChar THEN "None" ELSE "Some(" \o CharDebug(c) \o ")"

operator_token(src, i, current, next) ==
    IF current = NoChar THEN LexErr("Expected operator, found end of input")
    ELSE CASE current = "=" /\ next = "=" -> LexOk(TokenOperator("Equals"), i + 2)
           [] current = "!" /\ next = "=" -> LexOk(TokenOperator("NotEquals"), i + 2)
           [] current = "-" /\ next = ">" -> LexOk(Token("Arrow", ""), i + 2)
           [] current = ">" /\ next = "=" -> LexOk(TokenOperator("GreaterThanOrEqual"), i + 2)
           [] current = "<" /\ next = "=" -> LexOk(TokenOperator("LessThanOrEqual"), i + 2)
           [] current = "+" /\ next = "=" -> LexOk(TokenOperator("AddAssign"), i + 2)
           [] current = "-" /\ next = "=" -> LexOk(TokenOperator("SubAssign"), i + 2)
           [] current = "*" /\ next = "=" -> LexOk(TokenOperator("MulAssign"), i + 2)
           [] current = "*" /\ next = "*" ->
                IF peek(src, i + 2) = "=" THEN LexOk(TokenOperator("PowAssign"), i + 3)
                ELSE LexOk(TokenOperator("Power"), i + 2)
           [] current = "%" /\ next = "=" -> LexOk(TokenOperator("ModAssign"), i + 2)
           [] OTHER ->
                CASE current = "+" -> LexOk(TokenOperator("Plus"), i + 1)
                  [] current = "-" -> LexOk(TokenOperator("Minus"), i + 1)
                  [] current = "*" -> LexOk(TokenOperator("Multiply"), i + 1)
                  [] current = "/" -> LexOk(TokenOperator("Divide"), i + 1)
                  [] current = "%" -> LexOk(TokenOperator("Modulo"), i + 1)
                  [] current = "=" -> LexOk(TokenOperator("AssignEquals"), i + 1)
                  [] current = ">" -> LexOk(TokenOperator("GreaterThan"), i + 1)
                  [] current = "<" -> LexOk(TokenOperator("LessThan"), i + 1)
                  [] current = "(" -> LexOk(Token("LeftParen", ""), i + 1)
                  [] current = ")" -> LexOk(Token("RightParen", ""), i + 1)
                  [] current = "{" -> LexOk(Token("LeftBrace", ""), i + 1)
                  [] current = "}" -> LexOk(Token("RightBrace", ""), i + 1)
                  [] current = "," -> LexOk(Token("Comma", ""), i + 1)
                  [] OTHER -> LexErr("Unexpected operator: (" \o CharDebug(current)
                                     \o ", " \o OptionCharDebug(next) \o ")")

tokenize_operator(src, i) == operator_token(src, i, peek(src, i), peek(src, i + 1))

\* the arm of tokenize for '/': a comment skipped to the end of its line (and
\* the newline with it), /= or /
slash_token(src, i) ==
    CASE peek(src, i + 1) = "/" ->
            LexOk(Token("", ""),
                  consume_while(src, i + 2, "not_newline")
                    + (IF peek(src, consume_while(src, i + 2, "not_newline")) = "\n"
                       THEN 1 ELSE 0))
      [] peek(src, i + 1) = "=" -> LexOk(TokenOperator("DivAssign"), i + 2)
      [] OTHER -> LexOk(TokenOperator("Divide"), i + 1)

\* the match of tokenize on the current character c = src[i]; number says
\* whether a '-' goes to tokenize_number
token_at(src, i, c, number) ==
    CASE c \in AsciiDigits \/ (c = "-" /\ number) -> tokenize_number(src, i)
      [] c = "\"" -> tokenize_string(src, i)
      [] c \in LowerCase \cup UpperCase \cup {"_"} -> tokenize_identifier(src, i)
      [] c = "/" -> slash_token(src, i)
      [] c \in {"-", "+", ">", "=", "*", "(", ")", "{", "}", ",", "!", "%"} ->
            tokenize_operator(src, i)
      [] c = "." -> LexOk(Token("Period", ""), i + 1)
      [] c = ";" -> LexOk(Token("", ""), i + 1)
      [] is_whitespace(c) -> LexOk(Token("", ""), i + 1)
      [] OTHER -> LexErr("Unexpected character: " \o c)

\* tokenize's loop with every '-' handed to tokenize_operator
tokenize_one_minus_operator(src, i) == token_at(src, i, src[i], FALSE)

\* one turn of tokenize's loop at character c = src[i]: a token, an error, or
\* a `continue` (token.kind = "") past a comment, a ';' or whitespace.  A '-'
\* goes to tokenize_number when a digit follows it, else to tokenize_operator
tokenize_one(src, i) == token_at(src, i, src[i], peek(src, i + 1) \in AsciiDigits)

\* the loop's state after the turn that returned r
tokenize_pushed(st, r) ==
    IF r.err # "" THEN [st EXCEPT !.err = r.err, !.tokens = <<>>]
    ELSE [st EXCEPT !.pos = r.pos,
                    !.tokens = IF r.token.kind = "" THEN @ ELSE Append(@, r.token)]

\* one iteration of the loop of tokenize (while let Some(c) = self.peek()),
\* on the position, the tokens pushed so far and the Err returned; without
\* effect once the input is consumed or an error is returned
tokenize_step(src, st) ==
    IF st.err # "" \/ st.pos > Len(src) THEN st
    ELSE tokenize_pushed(st, tokenize_one(src, st.pos))

\* n iterations of the loop, n >= 1: n \div 2 of them, then the others
RECURSIVE tokenize_loop(_, _, _)
RECURSIVE tokenize_rest(_, _, _)
tokenize_loop(src, st, n) ==
    IF n <= 1 THEN tokenize_step(src, st)
    ELSE tokenize_rest(src, tokenize_loop(src, st, n \div 2), n - (n \div 2))

tokenize_rest(src, half, n) ==
    IF half.err # "" \/ half.pos > Len(src) THEN half ELSE tokenize_loop(src, half, n)

tokenize_result(st) == [err |-> st.err, tokens |-> st.tokens]

\* Lexer::new(input).tokenize(): every iteration consumes a character, so the
\* loop has ended after Len(src) iterations
tokenize(src) ==
    tokenize_result(tokenize_loop(src, [pos |-> 1, tokens |-> <<>>, err |-> ""],
                                  Len(src) + 1))

-----------------------------------------------------------------------------
(* Instructions: bytecode.rs, enum Instruction.  One record shape for all  *)
(* variants: n is the jump target / arg count, f the f64, s the name or text *)
(* b the bool, params the parameter list, ty the declared type.            *)

Ins(op) ==
    [op |-> op, n |-> 0, f |-> Zero(FALSE), s |-> "", b |-> FALSE, params |-> <<>>,
     ty |-> "None"]
InsN(op, n) == [Ins(op) EXCEPT !.n = n]
PushNumberIns(x) == [Ins("PushNumber") EXCEPT !.f = x]
InsS(op, s) == [Ins(op) EXCEPT !.s = s]
PushBoolean(b) == [Ins("PushBoolean") EXCEPT !.b = b]
DeclareVariableIns(name, ty) == [Ins("DeclareVariable") EXCEPT !.s = name, !.ty = ty]
DeclareFunctionIns(name, params, ty) ==
    [Ins("DeclareFunction") EXCEPT !.s = name, !.params = params, !.ty = ty]
CallIns(op, name, n) == [Ins(op) EXCEPT !.s = name, !.n = n]

JumpOps == {"Jump", "JumpIfFalse", "JumpIfTrue"}

-----------------------------------------------------------------------------
(* The bytecode compiler: bytecode.rs, struct Bytecode.  A compiler state  *)
(* c holds the fields of the struct; err is the Err(String) of the first   *)
(* failing compile_node ("" while none), which the ? operator propagates.  *)

NewBytecode ==
    [instructions |-> <<>>, jump_points |-> <<>>, labels |-> EmptyMap,
     label_counter |-> 0, err |-> ""]

Push(c, ins) == [c EXCEPT !.instructions = Append(@, ins)]

\* generate_label: the label and the state with the counter advanced
generate_label(c, prefix) ==
    [label |-> prefix \o "_" \o ToString(c.label_counter),
     c |-> [c EXCEPT !.label_counter = @ + 1]]

\* create_label recording the index after the next instruction
create_label_past(c, name) ==
    [c EXCEPT !.labels = MapPut(@, name, Len(c.instructions) + 1)]

create_label(c, name) ==
    [c EXCEPT !.labels = MapPut(@, name, Len(c.instructions))]

add_jump(c, ins, label) ==
    [c EXCEPT !.instructions = Append(@, ins),
              !.jump_points = Append(@, <<Len(c.instructions), label>>)]

RECURSIVE resolve_from(_, _)
resolve_from(c, i) ==
    IF i > Len(c.jump_points) \/ c.err # "" THEN c
    ELSE LET pos == c.jump_points[i][1]
             label == c.jump_points[i][2]
         IN  IF ~MapHas(c.labels, label)
             THEN [c EXCEPT !.err = "panic: Unresolved label"]
             ELSE IF c.instructions[pos + 1].op \notin JumpOps
             THEN [c EXCEPT !.err = "panic: Non jump instruction in jump points"]
             ELSE resolve_from(
                      [c EXCEPT !.instructions[pos + 1].n = c.labels[label]], i + 1)

resolve_jumps(c) == resolve_from(c, 1)

RECURSIVE is_return_statement(_)
is_return_statement(node) ==
    IF node.kind = "ReturnStatement" THEN TRUE
    ELSE IF node.kind = "IfStatement"
    THEN LET then_body == node.then_body
             else_body == node.else_body
             then_returns == Len(then_body) # 0
                             /\ is_return_statement(then_body[Len(then_body)])
         IN  IF node.has_else
             THEN LET else_returns == Len(else_body) # 0
                                      /\ is_return_statement(else_body[Len(else_body)])
                  IN  then_returns /\ else_returns
             ELSE then_returns
    ELSE FALSE

\* the arithmetic opcode of a compound assignment operator
CompoundOpcode(op) ==
    CASE op = "AddAssign" -> "Add"
      [] op = "SubAssign" -> "Subtract"
      [] op = "MulAssign" -> "Multiply"
      [] op = "DivAssign" -> "Divide"
      [] op = "PowAssign" -> "Power"
      [] op = "ModAssign" -> "Modulo"

CompoundOps == {"AddAssign", "SubAssign", "MulAssign", "DivAssign", "PowAssign", "ModAssign"}

\* the opcode of the operators lowered as left, right, opcode
BinaryOpcode(op) ==
    CASE op = "Plus" -> "Add"
      [] op = "Minus" -> "Subtract"
      [] op = "Multiply" -> "Multiply"
      [] op = "Divide" -> "Divide"
      [] op = "Power" -> "Power"
      [] op = "Modulo" -> "Modulo"
      [] op = "Equals" -> "Equals"
      [] op = "NotEquals" -> "NotEquals"
      [] op = "GreaterThan" -> "GreaterThan"
      [] op = "LessThan" -> "LessThan"
      [] op = "GreaterThanOrEqual" -> "GreaterThanOrEqual"
      [] op = "LessThanOrEqual" -> "LessThanOrEqual"
      [] op = "Concat" -> "Concat"
      [] OTHER -> "unreachable"

RECURSIVE compile_node(_, _), compile_nodes(_, _, _)

\* for stmt in nodes { self.compile_node(stmt)?; }
compile_nodes(c, nodes, i) ==
    IF i > Len(nodes) \/ c.err # "" THEN c
    ELSE compile_nodes(compile_node(c, nodes[i]), nodes, i + 1)

compile_assignment(c, node) ==
    IF node.left.kind # "Identifier"
    THEN [c EXCEPT !.err = "Left side of assignment must be an identifier"]
    ELSE LET name == node.left.name
         IN  IF node.op = "AssignEquals"
             THEN LET c1 == compile_node(c, node.right)
                  IN  IF c1.err # "" THEN c1
                      ELSE Push(Push(c1, InsS("StoreVariable", name)),
                                InsS("LoadVariable", name))
             ELSE LET c1 == compile_node(Push(c, InsS("LoadVariable", name)), node.right)
                  IN  IF c1.err # "" THEN c1
                      ELSE Push(Push(Push(c1, Ins(CompoundOpcode(node.op))),
                                     InsS("StoreVariable", name)),
                                InsS("LoadVariable", name))

compile_logical(c, node) ==
    LET isAnd == node.op = "LogicalAnd"
        c1 == compile_node(c, node.left)
        g1 == generate_label(c1, IF isAnd THEN "and_skip" ELSE "or_skip")
        g2 == generate_label(g1.c, IF isAnd THEN "and_end" ELSE "or_end")
        skip_label == g1.label
        end_label == g2.label
        c2 == add_jump(g2.c, InsN(IF isAnd THEN "JumpIfFalse" ELSE "JumpIfTrue", 0),
                       skip_label)
        c3 == compile_node(c2, node.right)
        c4 == add_jump(c3, InsN("Jump", 0), end_label)
        c5 == Push(create_label(c4, skip_label), PushBoolean(~isAnd))
    IN  IF c1.err # "" THEN c1
        ELSE IF c3.err # "" THEN c3
        ELSE create_label(c5, end_label)

compile_binary(c, node) ==
    IF node.op = "AssignEquals" \/ node.op \in CompoundOps THEN compile_assignment(c, node)
    ELSE IF node.op \in {"LogicalAnd", "LogicalOr"} THEN compile_logical(c, node)
    ELSE LET c1 == compile_node(c, node.left)
             c2 == compile_node(c1, node.right)
         IN  IF c1.err # "" THEN c1
             ELSE IF c2.err # "" THEN c2
             ELSE IF BinaryOpcode(node.op) = "unreachable"
             THEN [c2 EXCEPT !.err = "panic: Unexpected binary operator"]
             ELSE Push(c2, Ins(BinaryOpcode(node.op)))

compile_function_declaration(c, node) ==
    LET function_label == "function_" \o node.name
        end_label == function_label \o "_end"
        body == node.body
        c1 == Push(c, DeclareFunctionIns(node.name, node.parameters, node.return_type))
        c2 == add_jump(c1, InsN("Jump", 0), end_label)
        c3 == Push(create_label(c2, function_label), Ins("EnterScope"))
        has_explicit_return == Len(body) # 0 /\ is_return_statement(body[Len(body)])
        c4 == compile_nodes(c3, body, 1)
        c5 == IF ~has_explicit_return
              THEN Push(Push(c4, Ins("PushVoid")), Ins("Return"))
              ELSE c4
    IN  IF c4.err # "" THEN c4
        ELSE create_label(Push(c5, Ins("ExitScope")), end_label)

compile_if_statement(c, node) ==
    LET g1 == generate_label(c, "else")
        g2 == generate_label(g1.c, "endif")
        else_label == g1.label
        end_label == g2.label
        c1 == compile_node(g2.c, node.condition)
        c2 == Push(add_jump(c1, InsN("JumpIfFalse", 0), else_label), Ins("EnterScope"))
        c3 == compile_nodes(c2, node.then_body, 1)
        c4 == add_jump(Push(c3, Ins("ExitScope")), InsN("Jump", 0), end_label)
        c5 == create_label(c4, else_label)
        c6 == compile_nodes(Push(c5, Ins("EnterScope")), node.else_body, 1)
    IN  IF c1.err # "" THEN c1
        ELSE IF c3.err # "" THEN c3
        ELSE IF ~node.has_else THEN create_label(c5, end_label)
        ELSE IF c6.err # "" THEN c6
        ELSE create_label(Push(c6, Ins("ExitScope")), end_label)

compile_node(c, node) ==
    IF c.err # "" THEN c
    ELSE CASE node.kind = "Statement" ->
                LET c1 == compile_node(c, node.expr)
                IN  IF c1.err # "" THEN c1 ELSE Push(c1, Ins("Pop"))
           [] node.kind = "UnaryOperation" ->
                LET c1 == compile_node(c, node.operand)
                IN  IF c1.err # "" THEN c1
                    ELSE IF node.op = "UnaryMinus" THEN Push(c1, Ins("Negate"))
                    ELSE IF node.op = "LogicalNot" THEN Push(c1, Ins("LogicalNot"))
                    ELSE [c1 EXCEPT !.err = "Unsupported unary operator: " \o node.op]
           [] node.kind = "ReturnStatement" ->
                LET c1 == compile_node(c, node.expr)
                IN  IF c1.err # "" THEN c1 ELSE Push(c1, Ins("Return"))
           [] node.kind = "BinaryOperation" -> compile_binary(c, node)
           [] node.kind = "FunctionDeclaration" -> compile_function_declaration(c, node)
           [] node.kind = "FunctionCall" ->
                LET c1 == compile_nodes(c, node.arguments, 1)
                IN  IF c1.err # "" THEN c1
                    ELSE Push(c1, CallIns("Call", node.name, Len(node.arguments)))
           [] node.kind = "MethodCall" ->
                LET c1 == compile_node(c, node.object)
                    c2 == compile_nodes(c1, node.arguments, 1)
                IN  IF c1.err # "" THEN c1
                    ELSE IF c2.err # "" THEN c2
                    ELSE Push(c2, CallIns("CallMethod", node.method, Len(node.arguments)))
           [] node.kind = "IfStatement" -> compile_if_statement(c, node)
           [] node.kind = "VariableDeclaration" ->
                LET c1 == compile_node(
                              Push(c, DeclareVariableIns(node.name, node.var_type)),
                              node.value)
                IN  IF c1.err # "" THEN c1
                    ELSE Push(c1, InsS("StoreVariable", node.name))
           [] node.kind = "Identifier" -> Push(c, InsS("LoadVariable", node.name))
           [] node.kind = "NumberLiteral" -> Push(c, PushNumberIns(node.value))
           [] node.kind = "StringLiteral" -> Push(c, InsS("PushString", node.value))
           [] node.kind = "BooleanLiteral" -> Push(c, PushBoolean(node.value))
           [] OTHER -> [c EXCEPT !.err = "panic: Unexpected node type"]

\* Bytecode::compile on Program(statements): the final compiler state
compile(statements) ==
    LET c1 == compile_nodes(NewBytecode, statements, 1)
    IN  IF c1.err # "" THEN c1
        ELSE resolve_jumps(Push(c1, Ins("End")))

-----------------------------------------------------------------------------
(* The type checker: analyzer/typechecker.rs, struct TypeChecker.  A state *)
(* st holds the fields variables and functions; a check returns            *)
(* [ok, ty, err, st]: Ok(ty) or Err(err), and the state it leaves.         *)
(* Types are "Num", "Str", "Bool", "Void"; Option<Type>::None is "None".   *)

NewTypeChecker == [variables |-> <<>>, functions |-> EmptyMap]

\* stdlib.rs, register_stdlib_types
native_function_types == [x \in {"print"} |-> "Void"]
string_method_types == [x \in {"len", "to_string"} |-> IF x = "len" THEN "Num" ELSE "Str"]
number_method_types == [x \in {"to_string"} |-> "Str"]
boolean_method_types == [x \in {"to_string"} |-> "Str"]

TOk(st, ty) == [ok |-> TRUE, ty |-> ty, err |-> "", st |-> st]
TErr(st, msg) == [ok |-> FALSE, ty |-> "Void", err |-> msg, st |-> st]

enter_scope(st) ==
    LET v == IF Len(st.variables) = 0 THEN <<EmptyMap>> ELSE st.variables
    IN  [st EXCEPT !.variables = Append(v, EmptyMap)]

\* Vec::pop
PopLast(q) == IF Len(q) = 0 THEN q ELSE SubSeq(q, 1, Len(q) - 1)

exit_scope(st) == [st EXCEPT !.variables = PopLast(@)]

\* get_current_scope: the state with a scope to write to
get_current_scope(st) ==
    IF Len(st.variables) = 0 THEN [st EXCEPT !.variables = <<EmptyMap>>] ELSE st

RECURSIVE lookup_variable(_, _, _)
\* check_identifier's loop: for scope in self.variables.iter().rev()
lookup_variable(variables, name, i) ==
    IF i = 0 THEN "None"
    ELSE IF MapHas(variables[i], name) THEN variables[i][name]
    ELSE lookup_variable(variables, name, i - 1)

check_identifier(st, name) ==
    LET ty == lookup_variable(st.variables, name, Len(st.variables))
    IN  IF ty # "None" THEN TOk(st, ty)
        ELSE TErr(st, "Unknown identifier '" \o name \o "'")

verify_optional_parameter_usage(st, name) ==
    IF \E f \in DOMAIN st.functions :
          \E i \in 1..Len(st.functions[f].parameters) :
             st.functions[f].parameters[i].name = name
             /\ st.functions[f].parameters[i].optional
    THEN "Warning: Operation uses optional parameter '" \o name \o "' without null check"
    ELSE ""

ArithmeticOps == {"Plus", "Minus", "Multiply", "Divide", "Power", "Modulo"}
RelationalOps == {"GreaterThan", "LessThan", "GreaterThanOrEqual", "LessThanOrEqual"}

\* binary_result with the compound assignments typed like the arithmetic
\* operators they abbreviate: result Num instead of Bool
binary_result_compound_num(st, op, left_type, right_type) ==
    CASE op \in ArithmeticOps ->
            IF left_type # "Num"
            THEN TErr(st, "Type mismatch: expected 'Num', found '" \o left_type \o "'")
            ELSE IF right_type # "Num"
            THEN TErr(st, "Type mismatch: expected 'Num', found '" \o right_type \o "'")
            ELSE TOk(st, "Num")
      [] op \in {"LogicalAnd", "LogicalOr"} ->
            IF right_type # "Bool"
            THEN TErr(st, "Type mismatch: expected 'Bool', found '" \o right_type \o "'")
            ELSE TOk(st, "Bool")
      [] op = "Concat" ->
            IF left_type = "Void" \/ right_type = "Void"
            THEN TErr(st, "Cannot concatenate void")
            ELSE TOk(st, "Str")
      [] op \in {"Equals", "NotEquals"} ->
            IF left_type # right_type
            THEN TErr(st, "Type mismatch: expected '" \o left_type \o "', found '"
                          \o right_type \o "'")
            ELSE TOk(st, "Bool")
      [] op \in RelationalOps \cup CompoundOps ->
            IF left_type # "Num" \/ right_type # "Num"
            THEN TErr(st, "Type mismatch: expected 'Num' and 'Num', found '"
                          \o left_type \o "' and '" \o right_type \o "'")
            ELSE TOk(st, IF op \in CompoundOps THEN "Num" ELSE "Bool")
      [] op = "AssignEquals" ->
            IF left_type # right_type
            THEN TErr(st, "Type mismatch: expected '" \o left_type \o "', found '"
                          \o right_type \o "'")
            ELSE TOk(st, "Void")
      [] OTHER -> TErr(st, "panic: not a binary operator")

\* the final match of check_binary_operation on the two operand types
binary_result(st, op, left_type, right_type) ==
    CASE op \in ArithmeticOps ->
            IF left_type # "Num"
            THEN TErr(st, "Type mismatch: expected 'Num', found '" \o left_type \o "'")
            ELSE IF right_type # "Num"
            THEN TErr(st, "Type mismatch: expected 'Num', found '" \o right_type \o "'")
            ELSE TOk(st, "Num")
      [] op \in {"LogicalAnd", "LogicalOr"} ->
            IF right_type # "Bool"
            THEN TErr(st, "Type mismatch: expected 'Bool', found '" \o right_type \o "'")
            ELSE TOk(st, "Bool")
      [] op = "Concat" ->
            IF left_type = "Void" \/ right_type = "Void"
            THEN TErr(st, "Cannot concatenate void")
            ELSE TOk(st, "Str")
      [] op \in {"Equals", "NotEquals"} ->
            IF left_type # right_type
            THEN TErr(st, "Type mismatch: expected '" \o left_type \o "', found '"
                          \o right_type \o "'")
            ELSE TOk(st, "Bool")
      [] op \in RelationalOps \cup CompoundOps ->
            IF left_type # "Num" \/ right_type # "Num"
            THEN TErr(st, "Type mismatch: expected 'Num' and 'Num', found '"
                          \o left_type \o "' and '" \o right_type \o "'")
            ELSE TOk(st, "Bool")
      [] op = "AssignEquals" ->
            IF left_type # right_type
            THEN TErr(st, "Type mismatch: expected '" \o left_type \o "', found '"
                          \o right_type \o "'")
            ELSE TOk(st, "Void")
      [] OTHER -> TErr(st, "panic: not a binary operator")

RECURSIVE check_node(_, _), check_nodes(_, _, _, _), check_arguments(_, _, _, _, _)

\* for node in nodes { last = self.check_node(node)?; }: the last Ok type, from `last`
check_nodes(st, nodes, i, last) ==
    IF i > Len(nodes) THEN TOk(st, last)
    ELSE LET r == check_node(st, nodes[i])
         IN  IF ~r.ok THEN r ELSE check_nodes(r.st, nodes, i + 1, r.ty)

check_if_statement(st, node) ==
    LET rc == check_node(st, node.condition)
        rt == check_nodes(rc.st, node.then_body, 1, "Void")
        re == check_nodes(rt.st, node.else_body, 1, "Void")
    IN  IF ~rc.ok THEN rc
        ELSE IF rc.ty # "Bool"
        THEN TErr(rc.st, "Type mismatch: expected 'Bool', found '" \o rc.ty \o "'")
        ELSE IF ~rt.ok THEN rt
        ELSE IF ~node.has_else THEN TOk(rt.st, "Void")
        ELSE IF ~re.ok THEN re
        ELSE TOk(re.st, "Void")

check_binary_operation(st, node) ==
    LET wl == IF node.left.kind = "Identifier"
              THEN verify_optional_parameter_usage(st, node.left.name) ELSE ""
        wr == IF node.right.kind = "Identifier"
              THEN verify_optional_parameter_usage(st, node.right.name) ELSE ""
        rl == check_node(st, node.left)
        rr == check_node(rl.st, node.right)
    IN  IF wl # "" THEN TErr(st, wl)
        ELSE IF wr # "" THEN TErr(st, wr)
        ELSE IF ~rl.ok THEN rl
        ELSE IF node.op \in {"LogicalAnd", "LogicalOr"} /\ rl.ty # "Bool"
        THEN TErr(rl.st, "Type mismatch: expected 'Bool', found '" \o rl.ty \o "'")
        ELSE IF ~rr.ok THEN rr
        ELSE binary_result(rr.st, node.op, rl.ty, rr.ty)

check_variable_declaration(st, node) ==
    LET rv == check_node(st, node.value)
        st1 == get_current_scope(rv.st)
        top == Len(st1.variables)
    IN  IF ~rv.ok THEN rv
        ELSE IF rv.ty # node.var_type
        THEN TErr(rv.st, "Type mismatch: expected '" \o node.var_type \o "', found '"
                         \o rv.ty \o "'")
        ELSE IF MapHas(st1.variables[top], node.name)
        THEN TErr(st1, "Variable '" \o node.name \o "' already declared in this scope")
        ELSE TOk([st1 EXCEPT !.variables[top] = MapPut(@, node.name, node.var_type)],
                 "Void")

RECURSIVE bind_parameters(_, _, _)
\* for (param_name, param_type) in param_types { get_current_scope().insert(..) }
bind_parameters(st, parameters, i) ==
    IF i > Len(parameters) THEN st
    ELSE LET st1 == get_current_scope(st)
             top == Len(st1.variables)
         IN  bind_parameters(
                 [st1 EXCEPT !.variables[top] =
                      MapPut(@, parameters[i].name, parameters[i].param_type)],
                 parameters, i + 1)

check_function_declaration(st, node) ==
    LET st1 == [st EXCEPT !.functions =
                    MapPut(@, node.name, [parameters |-> node.parameters,
                                          return_type |-> node.return_type,
                                          is_native |-> FALSE])]
        st2 == bind_parameters(enter_scope(st1), node.parameters, 1)
        rb == check_nodes(st2, node.body, 1, "Void")
        last_type == rb.ty
    IN  IF ~rb.ok THEN rb
        ELSE IF node.return_type # "None" /\ last_type # node.return_type
        THEN TErr(rb.st, "Function '" \o node.name
                         \o "' return type mismatch, expected type '"
                         \o node.return_type \o "', got '" \o last_type \o "'")
        ELSE TOk(exit_scope(rb.st), "Void")

\* the argument loop of a native call: each argument typed, none Void
RECURSIVE check_nonvoid_arguments(_, _, _, _)
check_nonvoid_arguments(st, arguments, i, msg) ==
    IF i > Len(arguments) THEN TOk(st, "Void")
    ELSE LET r == check_node(st, arguments[i])
         IN  IF ~r.ok THEN r
             ELSE IF r.ty = "Void" THEN TErr(r.st, msg)
             ELSE check_nonvoid_arguments(r.st, arguments, i + 1, msg)

\* the argument loop of a user call: signature.parameters[i] panics when out of range
check_arguments(st, name, parameters, arguments, i) ==
    IF i > Len(arguments) THEN TOk(st, "Void")
    ELSE LET r == check_node(st, arguments[i])
         IN  IF ~r.ok THEN r
             ELSE IF i > Len(parameters)
             THEN TErr(r.st, "panic: index out of bounds")
             ELSE IF r.ty # parameters[i].param_type
             THEN TErr(r.st, "Argument '" \o parameters[i].name \o "' of function '"
                             \o name \o "' has type mismatch: expected type '"
                             \o parameters[i].param_type \o "', got '" \o r.ty \o "'")
             ELSE check_arguments(r.st, name, parameters, arguments, i + 1)

\* check_function_call's count of the parameters with optional == false
required_parameters_count(parameters) ==
    Cardinality({i \in 1..Len(parameters) : parameters[i].optional = FALSE})

check_function_call(st, node) ==
    IF MapHas(native_function_types, node.name)
    THEN LET r == check_nonvoid_arguments(st, node.arguments, 1,
                      "Native function '" \o node.name \o "' requires a non-void argument")
         IN  IF ~r.ok THEN r ELSE TOk(r.st, native_function_types[node.name])
    ELSE IF ~MapHas(st.functions, node.name)
    THEN TErr(st, "Unknown function '" \o node.name \o "'")
    ELSE LET signature == st.functions[node.name]
             required == required_parameters_count(signature.parameters)
             r == check_arguments(st, node.name, signature.parameters, node.arguments, 1)
         IN  IF Len(node.arguments) < required
             THEN TErr(st, "Function '" \o node.name \o "' expects at least "
                           \o ToString(required) \o " arguments, got "
                           \o ToString(Len(node.arguments)))
             ELSE IF ~r.ok THEN r
             ELSE TOk(r.st, IF signature.return_type = "None" THEN "Void"
                            ELSE signature.return_type)

\* the method table of a receiver type
method_types(object_type) ==
    CASE object_type = "Str" -> string_method_types
      [] object_type = "Num" -> number_method_types
      [] object_type = "Bool" -> boolean_method_types
      [] OTHER -> EmptyMap

check_method_call(st, node) ==
    LET ro == check_node(st, node.object)
        table == method_types(ro.ty)
        ra == check_nonvoid_arguments(ro.st, node.arguments, 1,
                  "Method '" \o node.method \o "' requires a non-void argument")
    IN  IF ~ro.ok THEN ro
        ELSE IF ~MapHas(table, node.method)
        THEN TErr(ro.st, "Method '" \o node.method \o "' does not exist for type '"
                         \o ro.ty \o "'")
        ELSE IF ~ra.ok THEN ra
        ELSE TOk(ra.st, table[node.method])

check_unary_operation(st, node) ==
    LET r == check_node(st, node.operand)
        want == IF node.op = "UnaryMinus" THEN "Num" ELSE "Bool"
    IN  IF ~r.ok THEN r
        ELSE IF node.op \notin {"UnaryMinus", "LogicalNot"}
        THEN TErr(r.st, "Unsupported unary operator: " \o node.op)
        ELSE IF r.ty # want
        THEN TErr(r.st, "Type mismatch: expected '" \o want \o "', found '" \o r.ty \o "'")
        ELSE TOk(r.st, want)

check_node(st, node) ==
    CASE node.kind \in {"Statement", "ReturnStatement"} -> check_node(st, node.expr)
      [] node.kind = "BinaryOperation" -> check_binary_operation(st, node)
      [] node.kind = "UnaryOperation" -> check_unary_operation(st, node)
      [] node.kind = "FunctionDeclaration" -> check_function_declaration(st, node)
      [] node.kind = "FunctionCall" -> check_function_call(st, node)
      [] node.kind = "MethodCall" -> check_method_call(st, node)
      [] node.kind = "IfStatement" -> check_if_statement(st, node)
      [] node.kind = "VariableDeclaration" -> check_variable_declaration(st, node)
      [] node.kind = "Identifier" -> check_identifier(st, node.name)
      [] node.kind = "BooleanLiteral" -> TOk(st, "Bool")
      [] node.kind = "NumberLiteral" -> TOk(st, "Num")
      [] node.kind = "StringLiteral" -> TOk(st, "Str")
      [] OTHER -> TErr(st, "panic: Unimplemented node type")

\* TypeChecker::check_program: "ok" or the first error
check_program(statements) ==
    LET r == check_nodes(NewTypeChecker, statements, 1, "Void")
    IN  IF r.ok THEN "ok" ELSE r.err

-----------------------------------------------------------------------------
(* The f64 operations of the VM on Value::Number *)

\* a + b,  a - b,  a * b,  a / b
NumAdd(a, b) == Number(F64Add(a.f, b.f))
NumSub(a, b) == Number(F64Sub(a.f, b.f))
NumMul(a, b) == Number(F64Mul(a.f, b.f))
NumDiv(a, b) == Number(F64Div(a.f, b.f))
\* a.powf(b): every Number libm's pow can give
NumPow(a, b) == {Number(x) : x \in F64Powf(a.f, b.f)}
\* a % b
NumRem(a, b) == Number(F64Rem(a.f, b.f))
\* a < b,  a <= b,  a == b
NumLt(a, b) == F64Lt(a.f, b.f)
NumLe(a, b) == F64Lt(a.f, b.f) \/ F64Eq(a.f, b.f)
NumEq(a, b) == F64Eq(a.f, b.f)
\* b == 0.0
NumIsZero(b) == IsZero(b.f)

\* f64::to_string (Display)
NumberToString(v) == F64Display(v.f)

BoolToString(b) == IF b THEN "true" ELSE "false"

-----------------------------------------------------------------------------
(* The VM: vm.rs, struct VM and VM::run *)

\* stdlib.rs, register_stdlib
vm_native_functions == {"print"}
string_methods == {"len", "to_string"}
number_methods == {"to_string"}
boolean_methods == {"to_string"}

\* the instruction at pc
cur == instructions[pc + 1]

At(op) == stage = "running" /\ pc < Len(instructions) /\ cur.op = op

\* what no instruction handler changes
Fixed == UNCHANGED <<prog, check, instructions, lexed, tree, typing>>

\* the handler returned normally: the loop's pc += 1, or its own jump to target
Continue(target, stk) ==
    /\ pc' = target
    /\ stack' = stk
    /\ executed' = executed \cup {pc}
    /\ UNCHANGED <<stage, result, err>>

\* the handler returned Err(msg)
Abort(stk, msg) ==
    /\ stage' = "error"
    /\ err' = msg
    /\ stack' = stk
    /\ executed' = executed \cup {pc}
    /\ UNCHANGED <<pc, result>>

\* run returned Ok(r)
Finish(stk, r) ==
    /\ stage' = "done"
    /\ result' = r
    /\ stack' = stk
    /\ executed' = executed \cup {pc}
    /\ UNCHANGED <<pc, err>>

Env == <<scopes, call_stack, functions, stdout, origin>>

Top(stk) == stk[Len(stk)]

\* index of the innermost scope that binds name, 0 when none
RECURSIVE find_scope(_, _, _)
find_scope(scs, name, i) ==
    IF i = 0 THEN 0
    ELSE IF MapHas(scs[i], name) THEN i
    ELSE find_scope(scs, name, i - 1)

\* history of one scope: what pushed it (by, at the instruction `at`, on
\* `depth` scopes, for a call with `base` values on the stack below its
\* arguments), the names it declares that no StoreVariable has written yet,
\* the type each of them was declared with,
\* and, while it is the top scope, the value last stored under each name by a
\* StoreVariable with no StoreVariable or DeclareVariable of that name since
Pushed(by, at, depth, base) ==
    [by |-> by, at |-> at, depth |-> depth, base |-> base, pending |-> {},
     stored |-> EmptyMap, declared |-> EmptyMap]

\* a map without the name
MapRemove(m, name) == [k \in DOMAIN m \ {name} |-> m[k]]

\* the histories after a StoreVariable of the value into scope i
AfterStore(org, i, name, value) ==
    [j \in 1..Len(org) |->
        [org[j] EXCEPT !.pending = IF j = i THEN @ \ {name} ELSE @,
                       !.stored = IF j = Len(org) THEN MapPut(@, name, value)
                                  ELSE MapRemove(@, name)]]

\* the histories after a DeclareVariable into the top scope
AfterDeclare(org, name, ty) ==
    [j \in 1..Len(org) |->
        [org[j] EXCEPT !.pending = IF j = Len(org) THEN @ \cup {name} ELSE @,
                       !.stored = MapRemove(@, name),
                       !.declared = IF j = Len(org) THEN MapPut(@, name, ty)
                                    ELSE @]]

\* StoreVariable with the scopes searched from the bottom (iter() for
\* iter().rev()): the outermost binding of the name
RECURSIVE find_scope_up(_, _, _)
find_scope_up(scs, name, i) ==
    IF i > Len(scs) THEN 0
    ELSE IF MapHas(scs[i], name) THEN i
    ELSE find_scope_up(scs, name, i + 1)

\* get_variable: the index of the scope it reads (top scope first, then top-down)
get_variable(scs, name) == find_scope(scs, name, Len(scs))

PushNumber ==
    /\ At("PushNumber")
    /\ Continue(pc + 1, Append(stack, Number(cur.f)))
    /\ Fixed /\ UNCHANGED Env

PushString ==
    /\ At("PushString")
    /\ Continue(pc + 1, Append(stack, String(cur.s)))
    /\ Fixed /\ UNCHANGED Env

PushBooleanStep ==
    /\ At("PushBoolean")
    /\ Continue(pc + 1, Append(stack, Boolean(cur.b)))
    /\ Fixed /\ UNCHANGED Env

PushVoid ==
    /\ At("PushVoid")
    /\ Continue(pc + 1, Append(stack, Void))
    /\ Fixed /\ UNCHANGED Env

Pop ==
    /\ At("Pop")
    /\ IF Len(stack) = 0 THEN Abort(stack, "Stack underflow")
       ELSE Continue(pc + 1, PopLast(stack))
    /\ Fixed /\ UNCHANGED Env

LoadVariable ==
    /\ At("LoadVariable")
    /\ LET i == get_variable(scopes, cur.s)
       IN  IF i = 0 THEN Abort(stack, "Variable '" \o cur.s \o "' not found")
           ELSE Continue(pc + 1, Append(stack, scopes[i][cur.s]))
    /\ Fixed /\ UNCHANGED Env

StoreVariableOutermost ==
    /\ At("StoreVariable")
    /\ Fixed /\ UNCHANGED <<call_stack, functions, stdout>>
    /\ IF Len(stack) = 0
       THEN Abort(stack, "Stack underflow") /\ UNCHANGED <<scopes, origin>>
       ELSE LET value == Top(stack)
                i == find_scope_up(scopes, cur.s, 1)
            IN  IF i = 0
                THEN /\ Abort(PopLast(stack),
                              "Assignment to undeclared variable '" \o cur.s \o "'")
                     /\ UNCHANGED <<scopes, origin>>
                ELSE /\ scopes' = [scopes EXCEPT ![i] = MapPut(@, cur.s, value)]
                     /\ origin' = AfterStore(origin, i, cur.s, value)
                     /\ Continue(pc + 1, stack)

StoreVariable ==
    /\ At("StoreVariable")
    /\ Fixed /\ UNCHANGED <<call_stack, functions, stdout>>
    /\ IF Len(stack) = 0
       THEN Abort(stack, "Stack underflow") /\ UNCHANGED <<scopes, origin>>
       ELSE LET value == Top(stack)
                i == find_scope(scopes, cur.s, Len(scopes))
            IN  IF i = 0
                THEN /\ Abort(PopLast(stack),
                              "Assignment to undeclared variable '" \o cur.s \o "'")
                     /\ UNCHANGED <<scopes, origin>>
                ELSE /\ scopes' = [scopes EXCEPT ![i] = MapPut(@, cur.s, value)]
                     /\ origin' = AfterStore(origin, i, cur.s, value)
                     /\ Continue(pc + 1, stack)

DeclareVariable ==
    /\ At("DeclareVariable")
    /\ Fixed /\ UNCHANGED <<call_stack, functions, stdout>>
    /\ IF MapHas(scopes[Len(scopes)], cur.s)
       THEN /\ Abort(stack, "Variable '" \o cur.s \o "' already declared in this scope")
            /\ UNCHANGED <<scopes, origin>>
       ELSE /\ scopes' = [scopes EXCEPT ![Len(scopes)] = MapPut(@, cur.s, Void)]
            /\ origin' = AfterDeclare(origin, cur.s, cur.ty)
            /\ Continue(pc + 1, stack)

\* {:?} of a Value
ValueDebug(v) ==
    CASE v.t = "Number" ->
            "Number(" \o F64Debug(v.f) \o ")"
      [] v.t = "String" -> "String(" \o StringDebug(v.s) \o ")"
      [] v.t = "Boolean" -> "Boolean(" \o BoolToString(v.b) \o ")"
      [] v.t = "Void" -> "Void"

\* format!("{:?} to {:?}", ..): the {:?} of the values with the text between
RECURSIVE DebugBetween(_, _)
DebugBetween(values, between) ==
    IF values = <<>> THEN ""
    ELSE ValueDebug(Head(values))
           \o (IF Len(values) = 1 THEN ""
               ELSE between \o DebugBetween(Tail(values), between))

\* what a two-operand handler does once both operands are popped:
\* push a value, return an error, or neither (an `if let` without else)
Pushes(v) == [kind |-> "push", value |-> v, msg |-> ""]
Fails(msg) == [kind |-> "err", value |-> Void, msg |-> msg]
Nothing == [kind |-> "none", value |-> Void, msg |-> ""]

BothNumbers(l, r) == l.t = "Number" /\ r.t = "Number"

AddOutcome(l, r) ==
    IF BothNumbers(l, r) THEN Pushes(NumAdd(l, r))
    ELSE Fails("Cannot add " \o DebugBetween(<<l, r>>, " to "))

SubtractOutcome(l, r) ==
    IF BothNumbers(l, r) THEN Pushes(NumSub(l, r))
    ELSE Fails("Type mismatch in subtraction")

MultiplyOutcome(l, r) ==
    IF BothNumbers(l, r) THEN Pushes(NumMul(l, r))
    ELSE Fails("Type mismatch in multiplication")

DivideOutcome(l, r) ==
    IF BothNumbers(l, r)
    THEN IF NumIsZero(r) THEN Fails("Cannot divide by zero") ELSE Pushes(NumDiv(l, r))
    ELSE Fails("Type mismatch in division")

PowerOutcomes(l, r) ==
    IF BothNumbers(l, r) THEN {Pushes(v) : v \in NumPow(l, r)} ELSE {Nothing}

ModuloOutcome(l, r) ==
    IF BothNumbers(l, r)
    THEN IF NumIsZero(r) THEN Fails("Cannot calculate modulo by zero")
         ELSE Pushes(NumRem(l, r))
    ELSE Nothing

\* the text Concat appends for a non-String operand
ConcatText(v) ==
    CASE v.t = "String" -> v.s
      [] v.t = "Boolean" -> BoolToString(v.b)
      [] v.t = "Number" -> NumberToString(v)

\* the texts of the operands, one after the other
RECURSIVE ConcatTexts(_)
ConcatTexts(values) ==
    IF values = <<>> THEN "" ELSE ConcatText(Head(values)) \o ConcatTexts(Tail(values))

ConcatOutcome(l, r) ==
    IF l.t = "Void" \/ r.t = "Void" THEN Fails("Cannot concatenate void")
    ELSE IF l.t = "String" \/ r.t = "String"
    THEN Pushes(String(ConcatTexts(<<l, r>>)))
    ELSE Fails("Type mismatch in concatenation")

\* a == b on two values of the same kind
SameKindEqual(l, r) ==
    CASE l.t = "Number" -> NumEq(l, r)
      [] l.t = "String" -> l.s = r.s
      [] l.t = "Boolean" -> l.b = r.b

EqualsOutcome(l, r) ==
    IF l.t = r.t /\ l.t # "Void" THEN Pushes(Boolean(SameKindEqual(l, r)))
    ELSE Fails("Type mismatch in equality comparison")

NotEqualsOutcome(l, r) ==
    IF l.t = r.t /\ l.t # "Void" THEN Pushes(Boolean(~SameKindEqual(l, r)))
    ELSE Fails("Type mismatch in equality comparison")

GreaterThanOutcome(l, r) ==
    IF BothNumbers(l, r) THEN Pushes(Boolean(NumLt(r, l))) ELSE Nothing

LessThanOutcome(l, r) ==
    IF BothNumbers(l, r) THEN Pushes(Boolean(NumLt(l, r))) ELSE Nothing

GreaterThanOrEqualOutcome(l, r) ==
    IF BothNumbers(l, r) THEN Pushes(Boolean(NumLe(r, l))) ELSE Nothing

LessThanOrEqualOutcome(l, r) ==
    IF BothNumbers(l, r) THEN Pushes(Boolean(NumLe(l, r))) ELSE Nothing

\* the operands of a two-operand handler: the top of the stack and the value
\* below it
RightOperand == stack[Len(stack)]
LeftOperand == stack[Len(stack) - 1]

\* the handler's effect with outcome o, on the stack below the operands
Outcome(o, rest) ==
    CASE o.kind = "push" -> Continue(pc + 1, Append(rest, o.value))
      [] o.kind = "err" -> Abort(rest, o.msg)
      [] o.kind = "none" -> Continue(pc + 1, rest)

\* let right = self.pop()?; let left = self.pop()?; then one of the outcomes
\* the handler can have on them (one, but for powf)
BinaryStep(outcomes) ==
    /\ Fixed /\ UNCHANGED Env
    /\ IF Len(stack) = 0 THEN Abort(stack, "Stack underflow")
       ELSE IF Len(stack) = 1 THEN Abort(<<>>, "Stack underflow")
       ELSE \E o \in outcomes : Outcome(o, SubSeq(stack, 1, Len(stack) - 2))

Add ==
    /\ At("Add")
    /\ BinaryStep({AddOutcome(LeftOperand, RightOperand)})

Subtract ==
    /\ At("Subtract")
    /\ BinaryStep({SubtractOutcome(LeftOperand, RightOperand)})

Multiply ==
    /\ At("Multiply")
    /\ BinaryStep({MultiplyOutcome(LeftOperand, RightOperand)})

Divide ==
    /\ At("Divide")
    /\ BinaryStep({DivideOutcome(LeftOperand, RightOperand)})

Power ==
    /\ At("Power")
    /\ BinaryStep(PowerOutcomes(LeftOperand, RightOperand))

Modulo ==
    /\ At("Modulo")
    /\ BinaryStep({ModuloOutcome(LeftOperand, RightOperand)})

Concat ==
    /\ At("Concat")
    /\ BinaryStep({ConcatOutcome(LeftOperand, RightOperand)})

Equals ==
    /\ At("Equals")
    /\ BinaryStep({EqualsOutcome(LeftOperand, RightOperand)})

NotEquals ==
    /\ At("NotEquals")
    /\ BinaryStep({NotEqualsOutcome(LeftOperand, RightOperand)})

GreaterThan ==
    /\ At("GreaterThan")
    /\ BinaryStep({GreaterThanOutcome(LeftOperand, RightOperand)})

LessThan ==
    /\ At("LessThan")
    /\ BinaryStep({LessThanOutcome(LeftOperand, RightOperand)})

GreaterThanOrEqual ==
    /\ At("GreaterThanOrEqual")
    /\ BinaryStep({GreaterThanOrEqualOutcome(LeftOperand, RightOperand)})

LessThanOrEqual ==
    /\ At("LessThanOrEqual")
    /\ BinaryStep({LessThanOrEqualOutcome(LeftOperand, RightOperand)})


Jump ==
    /\ At("Jump")
    /\ Continue(cur.n, stack)
    /\ Fixed /\ UNCHANGED Env

JumpIfFalse ==
    /\ At("JumpIfFalse")
    /\ Fixed /\ UNCHANGED Env
    /\ IF Len(stack) = 0 THEN Abort(stack, "Stack underflow")
       ELSE IF Top(stack).t # "Boolean"
       THEN Abort(PopLast(stack), "Non bool value in condition")
       ELSE Continue(IF ~Top(stack).b THEN cur.n ELSE pc + 1, PopLast(stack))


DeclareFunction ==
    /\ At("DeclareFunction")
    /\ LET next == pc + 1
           body_address == IF next < Len(instructions) /\ instructions[next + 1].op = "Jump"
                           THEN next + 1 ELSE next
       IN  functions' = MapPut(functions, cur.s,
                               [parameters |-> cur.params, address |-> body_address])
    /\ Continue(pc + 1, stack)
    /\ Fixed /\ UNCHANGED <<scopes, call_stack, stdout, origin>>

\* the last k values of the stack, in push order (the popped arguments)
LastK(stk, k) == SubSeq(stk, Len(stk) - k + 1, Len(stk))
DropK(stk, k) == SubSeq(stk, 1, Len(stk) - k)

\* stdlib.rs, print: the lines it writes
RECURSIVE print_lines(_, _)
print_lines(args, i) ==
    IF i > Len(args) THEN <<>>
    ELSE <<CASE args[i].t = "Number" -> NumberToString(args[i])
             [] args[i].t = "String" -> args[i].s
             [] args[i].t = "Boolean" -> BoolToString(args[i].b)
             [] args[i].t = "Void" -> "void">> \o print_lines(args, i + 1)

print(args) == IF Len(args) = 0 THEN <<"">> ELSE print_lines(args, 1)

\* stdlib.rs, string_len
string_len(args) ==
    IF Len(args) # 1 THEN Fails("method: len() requires exactly one argument")
    ELSE IF args[1].t = "String" THEN Pushes(Number(FromInt(Utf8Len(args[1].s))))
    ELSE Fails("method: len() argument must be a string")

\* stdlib.rs, to_string
to_string(args) ==
    IF Len(args) # 1 THEN Fails("method: to_string() requires exactly one argument")
    ELSE IF args[1].t = "Void" THEN Fails("Cannot convert to string")
    ELSE Pushes(String(ConcatText(args[1])))

\* the Call handler's count named required_args
required_args(parameters) ==
    Cardinality({i \in 1..Len(parameters) : parameters[i].optional})

\* the binding loop of Call: parameter i gets args[i], or Void past the arguments
RECURSIVE bind_args(_, _, _, _)
bind_args(scope, parameters, args, i) ==
    IF i > Len(parameters) THEN scope
    ELSE bind_args(MapPut(scope, parameters[i].name,
                          IF i <= Len(args) THEN args[i] ELSE Void),
                   parameters, args, i + 1)

CallNative ==
    /\ At("Call") /\ cur.s \in vm_native_functions
    /\ Fixed /\ UNCHANGED <<scopes, call_stack, functions, origin>>
    /\ IF Len(stack) < cur.n
       THEN Abort(<<>>, "Stack underflow") /\ UNCHANGED stdout
       ELSE /\ stdout' = stdout \o print(LastK(stack, cur.n))
            /\ Continue(pc + 1, Append(DropK(stack, cur.n), Void))

Call ==
    /\ At("Call") /\ cur.s \notin vm_native_functions
    /\ Fixed /\ UNCHANGED <<functions, stdout>>
    /\ IF ~MapHas(functions, cur.s)
       THEN /\ Abort(stack, "Usage of undeclared function '" \o cur.s \o "'")
            /\ UNCHANGED <<scopes, call_stack, origin>>
       ELSE LET function == functions[cur.s]
                arg_count == cur.n
                required == required_args(function.parameters)
                scope_index == Len(scopes)
                args == LastK(stack, arg_count)
                cf == [return_address |-> pc + 1,
                       variables |-> bind_args(EmptyMap, function.parameters, args, 1),
                       scope_index |-> scope_index]
            IN  IF arg_count < required \/ arg_count > Len(function.parameters)
                THEN /\ Abort(stack, "Function '" \o cur.s \o "' requires "
                                     \o ToString(required) \o " arguments, but "
                                     \o ToString(arg_count) \o " were provided")
                     /\ UNCHANGED <<scopes, call_stack, origin>>
                ELSE IF Len(stack) < arg_count
                THEN /\ Abort(<<>>, "Stack underflow")
                     /\ scopes' = Append(scopes, EmptyMap)
                     /\ origin' = Append(origin, Pushed("call", pc, Len(scopes),
                                                         Len(stack) - arg_count))
                     /\ UNCHANGED call_stack
                ELSE /\ scopes' = Append(scopes,
                                     bind_args(EmptyMap, function.parameters, args, 1))
                     /\ origin' = Append(origin, Pushed("call", pc, Len(scopes),
                                                         Len(stack) - arg_count))
                     /\ call_stack' = Append(call_stack, cf)
                     /\ Continue(function.address, DropK(stack, arg_count))

\* whether a method is registered for the receiver's kind
method_registered(object, name) ==
    CASE object.t = "String" -> name \in string_methods
      [] object.t = "Number" -> name \in number_methods
      [] object.t = "Boolean" -> name \in boolean_methods
      [] OTHER -> FALSE

CallMethod ==
    /\ At("CallMethod")
    /\ Fixed /\ UNCHANGED Env
    /\ IF Len(stack) < cur.n + 1 THEN Abort(<<>>, "Stack underflow")
       ELSE LET args == LastK(stack, cur.n)
                rest == DropK(stack, cur.n + 1)
                object == stack[Len(stack) - cur.n]
                full_args == <<object>> \o args
                o == IF cur.s = "len" THEN string_len(full_args) ELSE to_string(full_args)
            IN  IF object.t = "Void"
                THEN Abort(rest, "Cannot call method '" \o cur.s \o "' on Void")
                ELSE IF ~method_registered(object, cur.s)
                THEN Continue(pc + 1, rest)
                ELSE IF o.kind = "err" THEN Abort(rest, o.msg)
                ELSE Continue(pc + 1, Append(rest, o.value))


Return ==
    /\ At("Return")
    /\ Fixed /\ UNCHANGED <<functions, stdout>>
    /\ LET return_value == IF Len(stack) # 0 THEN Top(stack) ELSE Void
           rest == PopLast(stack)
       IN  IF Len(call_stack) # 0
           THEN LET cf == Top(call_stack)
                IN  /\ call_stack' = PopLast(call_stack)
                    /\ scopes' = SubSeq(scopes, 1, Min(Len(scopes), cf.scope_index))
                    /\ origin' = SubSeq(origin, 1, Min(Len(scopes), cf.scope_index))
                    /\ Continue(cf.return_address, Append(rest, return_value))
           ELSE /\ Finish(rest, Some(return_value))
                /\ UNCHANGED <<scopes, call_stack, origin>>

EnterScope ==
    /\ At("EnterScope")
    /\ scopes' = Append(scopes, EmptyMap)
    /\ origin' = Append(origin, Pushed("enter", pc, Len(scopes), 0))
    /\ Continue(pc + 1, stack)
    /\ Fixed /\ UNCHANGED <<call_stack, functions, stdout>>

ExitScope ==
    /\ At("ExitScope")
    /\ scopes' = IF Len(scopes) <= 1 THEN <<EmptyMap>> ELSE PopLast(scopes)
    /\ origin' = IF Len(scopes) <= 1 THEN <<Pushed("global", pc, 0, 0)>>
                 ELSE PopLast(origin)
    /\ Continue(pc + 1, stack)
    /\ Fixed /\ UNCHANGED <<call_stack, functions, stdout>>

\* the End instruction, and the loop's exit when pc runs past the vector
End ==
    /\ stage = "running"
    /\ IF pc < Len(instructions) THEN cur.op = "End" ELSE TRUE
    /\ Fixed /\ UNCHANGED Env
    /\ IF pc < Len(instructions) /\ Len(stack) # 0
       THEN Finish(PopLast(stack), Some(Top(stack)))
       ELSE Finish(stack, None)

-----------------------------------------------------------------------------
(* The parser: parser/parser.rs.  The Parser's peekable token iterator is  *)
(* the token vector and the position i of its next token.  A parse_*       *)
(* function returns its Result and the position afterwards; node is the    *)
(* ASTNode, or the Vec of nodes or parameters.  A NumberLiteral built here *)
(* holds the token's f64.                                                   *)

NoToken == Token("", "")

peek_token(tokens, i) == IF i <= Len(tokens) THEN tokens[i] ELSE NoToken

\* Result<ASTNode, String> of the parse_* functions with the position of the
\* next token; `found` holds the tokens whose {:?} ends the message of an Err
ParseOk(node, i) == [err |-> "", found |-> <<>>, node |-> node, pos |-> i]
ParseFound(msg, found) == [err |-> msg, found |-> found, node |-> <<>>, pos |-> 0]
ParseErr(msg) == ParseFound(msg, <<>>)

\* {:?} of a Token
TokenDebug(t) ==
    CASE t.kind = "Number" ->
            "Number(" \o F64Debug(t.f) \o ")"
      [] t.kind = "String" -> "String(" \o StringDebug(t.s) \o ")"
      [] t.kind = "Boolean" -> "Boolean(" \o BoolToString(t.b) \o ")"
      [] t.kind = "Identifier" -> "Identifier(" \o StringDebug(t.s) \o ")"
      [] t.kind \in {"Keyword", "Type", "Operator"} -> t.kind \o "(" \o t.s \o ")"
      [] OTHER -> t.kind

\* the match on self.tokens.next() that wants one token kind: the position
\* after it, or the error for another token or for the end of the input
Expect(tokens, i, kind, expected, at_end) ==
    LET t == peek_token(tokens, i)
    IN  IF t.kind = kind THEN ParseOk(t, i + 1)
        ELSE IF t.kind # "" THEN ParseFound(expected \o ", found ", <<t>>)
        ELSE ParseErr(at_end)

\* precedence_order[prec] of parse_expression_with_precedence, prec from 0
precedence_order ==
    <<{"AssignEquals", "AddAssign", "SubAssign", "MulAssign", "DivAssign"},
      {"Equals", "NotEquals", "GreaterThan", "LessThan", "GreaterThanOrEqual",
       "LessThanOrEqual"},
      {"Plus", "Minus"},
      {"Multiply", "Divide"}>>

RECURSIVE parse_primary(_, _)
RECURSIVE parse_function_call(_, _, _)
RECURSIVE parse_arguments(_, _, _)
RECURSIVE parse_expression_with_precedence(_, _, _)
RECURSIVE parse_operators(_, _, _, _)
RECURSIVE parse_statement(_, _)
RECURSIVE parse_statements(_, _, _)

\* Each `?` and each early `return Err` of the source is written
\*     LET then(r) == IF r.err # "" THEN r ELSE <the rest> IN then(<the call>)
\* so that the call is evaluated once and its error returned as it is.

parse_expression(tokens, i) == parse_expression_with_precedence(tokens, i, 0)

\* the match after a parenthesised expression, an argument list or a
\* parameter list: the ')' is consumed and node is the result
close_paren(tokens, i, node) ==
    LET then(close) == IF close.err # "" THEN close ELSE ParseOk(node, close.pos)
    IN  then(Expect(tokens, i, "RightParen", "Expected ')'", "Unexpected end of input"))

parse_primary(tokens, i) ==
    LET t == peek_token(tokens, i)
    IN  CASE t.kind = "LeftParen" ->
                LET then(expr) == IF expr.err # "" THEN expr
                                  ELSE close_paren(tokens, expr.pos, expr.node)
                IN  then(parse_expression(tokens, i + 1))
          [] t.kind = "Identifier" ->
                IF peek_token(tokens, i + 1).kind = "LeftParen"
                THEN parse_function_call(tokens, i + 2, t.s)
                ELSE ParseOk(Identifier(t.s), i + 1)
          [] t.kind = "Number" -> ParseOk(NumberLiteral(t.f), i + 1)
          [] t.kind = "String" -> ParseOk(StringLiteral(t.s), i + 1)
          [] t.kind = "Boolean" -> ParseOk(BooleanLiteral(t.b), i + 1)
          [] t.kind = "" -> ParseErr("Unexpected end of input")
          [] OTHER -> ParseFound("Unexpected token: ", <<t>>)

\* the first argument is parsed; the `while let Some(Token::Comma)` loop of
\* parse_function_call and its closing match
parse_arguments(tokens, i, arguments) ==
    IF peek_token(tokens, i).kind = "Comma"
    THEN LET then(a) == IF a.err # "" THEN a
                        ELSE parse_arguments(tokens, a.pos, Append(arguments, a.node))
         IN  then(parse_expression(tokens, i + 1))
    ELSE ParseOk(arguments, i)

\* the name and the '(' are consumed
parse_function_call(tokens, i, name) ==
    IF peek_token(tokens, i).kind = "RightParen"
    THEN ParseOk(FunctionCall(name, <<>>), i + 1)
    ELSE LET then_close(arguments) ==
                 IF arguments.err # "" THEN arguments
                 ELSE close_paren(tokens, arguments.pos, FunctionCall(name, arguments.node))
             then(first) ==
                 IF first.err # "" THEN first
                 ELSE then_close(parse_arguments(tokens, first.pos, <<first.node>>))
         IN  then(parse_expression(tokens, i))

\* the `while let Some(Token::Operator(op))` loop at level prec
parse_operators(tokens, i, prec, left) ==
    LET t == peek_token(tokens, i)
        then(right) ==
            IF right.err # "" THEN right
            ELSE parse_operators(tokens, right.pos, prec,
                                 BinaryOperation(left, t.s, right.node))
    IN  IF t.kind = "Operator" /\ t.s \in precedence_order[prec + 1]
        THEN then(parse_expression_with_precedence(
                      tokens, i + 1, IF prec = 0 THEN prec ELSE prec + 1))
        ELSE ParseOk(left, i)

parse_expression_with_precedence(tokens, i, prec) ==
    IF prec >= Len(precedence_order) THEN parse_primary(tokens, i)
    ELSE LET then(left) == IF left.err # "" THEN left
                           ELSE parse_operators(tokens, left.pos, prec, left.node)
         IN  then(IF prec = Len(precedence_order) - 1 THEN parse_primary(tokens, i)
                  ELSE parse_expression_with_precedence(tokens, i, prec + 1))

parse_parameter(tokens, i) ==
    LET token1 == peek_token(tokens, i)
        token2 == peek_token(tokens, i + 1)
    IN  IF token1.kind = "Type" /\ token2.kind = "Identifier"
        THEN LET optional == peek_token(tokens, i + 2) = TokenOperator("Multiply")
             IN  ParseOk(Parameter(token2.s, token1.s, optional),
                         IF optional THEN i + 3 ELSE i + 2)
        ELSE IF token1.kind # "" /\ token2.kind # ""
        THEN ParseFound("Expected type and identifier, found ", <<token1, token2>>)
        ELSE ParseErr("Unexpected end of input")

\* the `while let Some(Token::Comma)` loop of parse_parameter_list
RECURSIVE parse_parameters(_, _, _)
parse_parameters(tokens, i, parameters) ==
    IF peek_token(tokens, i).kind = "Comma"
    THEN LET then(p) == IF p.err # "" THEN p
                        ELSE parse_parameters(tokens, p.pos, Append(parameters, p.node))
         IN  then(parse_parameter(tokens, i + 1))
    ELSE ParseOk(parameters, i)

parse_parameter_list(tokens, i) ==
    IF peek_token(tokens, i).kind = "RightParen" THEN ParseOk(<<>>, i + 1)
    ELSE LET then_close(parameters) ==
                 IF parameters.err # "" THEN parameters
                 ELSE close_paren(tokens, parameters.pos, parameters.node)
             then(first) ==
                 IF first.err # "" THEN first
                 ELSE then_close(parse_parameters(tokens, first.pos, <<first.node>>))
         IN  then(parse_parameter(tokens, i))

\* the loop of parse_function_body and of parse_block: statements up to a
\* '}' or the end of the input
parse_statements(tokens, i, statements) ==
    IF peek_token(tokens, i).kind \in {"", "RightBrace"} THEN ParseOk(statements, i)
    ELSE LET then(st) == IF st.err # "" THEN st
                         ELSE parse_statements(tokens, st.pos, Append(statements, st.node))
         IN  then(parse_statement(tokens, i))

parse_function_body(tokens, i) == parse_statements(tokens, i, <<>>)

\* the match on '}' that ends a block or a function body; node is the result
close_brace(tokens, i, node) ==
    LET then(close) == IF close.err # "" THEN close ELSE ParseOk(node, close.pos)
    IN  then(Expect(tokens, i, "RightBrace", "Expected '}'", "Unexpected end of input"))

parse_block(tokens, i) ==
    LET then(statements) == IF statements.err # "" THEN statements
                            ELSE close_brace(tokens, statements.pos, statements.node)
    IN  then(parse_statements(tokens, i, <<>>))

\* the optional `-> type` of parse_function_declaration
parse_return_type(tokens, i) ==
    IF peek_token(tokens, i).kind = "Arrow"
    THEN Expect(tokens, i + 1, "Type", "Expected return type", "Unexpected end of input")
    ELSE ParseOk(Token("Type", "None"), i)

\* the keyword `fun` is consumed
parse_function_declaration(tokens, i) ==
    LET then_body(name, parameters, return_type, body) ==
            IF body.err # "" THEN body
            ELSE close_brace(tokens, body.pos,
                             FunctionDeclaration(name.node.s, parameters.node,
                                                 return_type.node.s, body.node))
        then_brace(name, parameters, return_type, brace) ==
            IF brace.err # "" THEN brace
            ELSE then_body(name, parameters, return_type,
                           parse_function_body(tokens, brace.pos))
        then_type(name, parameters, return_type) ==
            IF return_type.err # "" THEN return_type
            ELSE then_brace(name, parameters, return_type,
                            Expect(tokens, return_type.pos, "LeftBrace", "Expected '{'",
                                   "Unexpected end of input"))
        then_parameters(name, parameters) ==
            IF parameters.err # "" THEN parameters
            ELSE then_type(name, parameters, parse_return_type(tokens, parameters.pos))
        then_open(name, open) ==
            IF open.err # "" THEN open
            ELSE then_parameters(name, parse_parameter_list(tokens, open.pos))
        then(name) ==
            IF name.err # "" THEN name
            ELSE then_open(name, Expect(tokens, name.pos, "LeftParen", "Expected '('",
                                        "Unexpected end of input"))
    IN  then(Expect(tokens, i, "Identifier", "Expected function name",
                    "Expected function name, found end of input"))

\* the optional else of parse_if_statement, after the then-body
parse_else(tokens, i, condition, then_body) ==
    IF peek_token(tokens, i) = Token("Keyword", "Else")
    THEN LET then_block(else_body) ==
                 IF else_body.err # "" THEN else_body
                 ELSE ParseOk(IfElseStatement(condition, then_body, else_body.node),
                              else_body.pos)
             then(brace) == IF brace.err # "" THEN brace
                            ELSE then_block(parse_block(tokens, brace.pos))
         IN  then(Expect(tokens, i + 1, "LeftBrace", "Expected '{'",
                         "Unexpected end of input"))
    ELSE ParseOk(IfStatement(condition, then_body), i)

\* the keyword `if` is consumed
parse_if_statement(tokens, i) ==
    LET then_block(condition, then_body) ==
            IF then_body.err # "" THEN then_body
            ELSE parse_else(tokens, then_body.pos, condition.node, then_body.node)
        then_brace(condition, brace) ==
            IF brace.err # "" THEN brace
            ELSE then_block(condition, parse_block(tokens, brace.pos))
        then_close(condition, close) ==
            IF close.err # "" THEN close
            ELSE then_brace(condition, Expect(tokens, close.pos, "LeftBrace",
                                              "Expected '{'", "Unexpected end of input"))
        then_condition(condition) ==
            IF condition.err # "" THEN condition
            ELSE then_close(condition, Expect(tokens, condition.pos, "RightParen",
                                              "Expected ')'", "Unexpected end of input"))
        then(open) ==
            IF open.err # "" THEN open
            ELSE then_condition(parse_expression(tokens, open.pos))
    IN  then(Expect(tokens, i, "LeftParen", "Expected '(' after 'if'",
                    "Unexpected end of input"))

\* the type is consumed
parse_variable_declaration(tokens, i, var_type) ==
    LET then_value(name, value) ==
            IF value.err # "" THEN value
            ELSE ParseOk(VariableDeclaration(var_type, name.node.s, value.node), value.pos)
        then(name) ==
            IF name.err # "" THEN name
            ELSE LET t == peek_token(tokens, name.pos)
                 IN  IF t = TokenOperator("AssignEquals")
                     THEN then_value(name, parse_expression(tokens, name.pos + 1))
                     ELSE IF t.kind # "" THEN ParseFound("Expected '=', found ", <<t>>)
                     ELSE ParseErr("Unexpected end of input")
    IN  then(Expect(tokens, i, "Identifier", "Expected identifier",
                    "Unexpected end of input"))

parse_statement(tokens, i) ==
    LET t == peek_token(tokens, i)
        then_return(expression) ==
            IF expression.err # "" THEN expression
            ELSE ParseOk(ReturnStatement(expression.node), expression.pos)
        then_statement(expression) ==
            IF expression.err # "" THEN expression
            ELSE ParseOk(Statement(expression.node), expression.pos)
    IN  CASE t = Token("Keyword", "Fun") -> parse_function_declaration(tokens, i + 1)
          [] t = Token("Keyword", "If") -> parse_if_statement(tokens, i + 1)
          [] t.kind = "Type" -> parse_variable_declaration(tokens, i + 1, t.s)
          [] t = Token("Keyword", "Return") -> then_return(parse_expression(tokens, i + 1))
          [] OTHER -> then_statement(parse_expression(tokens, i))

\* the loop of parse_program
RECURSIVE parse_program_from(_, _, _)
parse_program_from(tokens, i, statements) ==
    IF i > Len(tokens) THEN ParseOk(statements, i)
    ELSE LET then(st) == IF st.err # "" THEN st
                         ELSE parse_program_from(tokens, st.pos, Append(statements, st.node))
         IN  then(parse_statement(tokens, i))

\* format!("{:?} {:?}", ..) of the tokens a message ends with
RECURSIVE DebugJoined(_)
DebugJoined(found) ==
    IF found = <<>> THEN ""
    ELSE TokenDebug(Head(found))
           \o (IF Len(found) = 1 THEN "" ELSE " " \o DebugJoined(Tail(found)))

\* the Result with the message of its Err formatted
Formatted(r) == [err |-> r.err \o DebugJoined(r.found), node |-> r.node, pos |-> r.pos]

\* Parser::new(tokens).parse_program(): the statements of ASTNode::Program
parse_program(tokens) == Formatted(parse_program_from(tokens, 1, <<>>))

-----------------------------------------------------------------------------
(* The corpus.  A program is a source text, what Lexer::new takes.  The     *)
(* lexer and the parser return an error for the texts that use .., **, %,  *)
(* <, <=, &&, ||, a unary operator or a method call; the trees of those     *)
(* programs are given as well, as values of ASTNode handed to              *)
(* TypeChecker::new and Bytecode::new, which is how the type checker, the   *)
(* compiler and the VM are reached for these constructs.  A tree given     *)
(* this way is an argument of those constructors, not a result of          *)
(* parse_program.                                                          *)

Num(n) == NumberLiteral(FromInt(n))
Id(name) == Identifier(name)
Bin(l, op, r) == BinaryOperation(l, op, r)

\* 1 / 0 == 1: a Bool expression that fails at run time when evaluated
DivByZero == Bin(Bin(Num(1), "Divide", Num(0)), "Equals", Num(1))

\* scenario 5
ProgConcat ==
    Chars("str s = \"hi\" .. 42 .. true   s")

ProgOperators ==
    Chars("num a = 7 - 2   num b = a / 2   num c = 2 ** 3 % 5   bool "
          \o "d = a != b   bool e = a >= b   bool f = a <= b   bool g = "
          \o "a == b   print(a, b, d)   \"abc\".len()   c.to_string()")

ProgUnary ==
    Chars("return -(3)")

ProgUnknownMethod ==
    Chars("7.len()")

\* scenario 1
ProgArith ==
    Chars("num x = 2 + 3 * 4   x")

\* scenario 4
ProgIfElseScope ==
    Chars("if (1 > 2) { num a = 1 } else { num a = 2 }   a")

ProgIfScope ==
    Chars("if (2 > 1) { num a = 1 }   a")

\* scenario 6
ProgFib ==
    Chars("fun fib(num n) -> num { if (n < 2) { return n } else { "
          \o "return fib(n - 1) + fib(n - 2) } }   fib(10)")

\* scenario 6 with the condition written 2 > n
ProgFibGreater ==
    Chars("fun fib(num n) -> num { if (2 > n) { return n } else { "
          \o "return fib(n - 1) + fib(n - 2) } }   fib(10)")

ProgTwoDeclarations ==
    Chars("num x = 1   num y = 2")

ProgAssignments ==
    Chars("num x = 1   x = 5   x += 2")

ProgSameNameFunctions ==
    Chars("fun f() { }   num x = 1   fun f() { }   x")

ProgSameNameInBlocks ==
    Chars("if (true) { fun f() { } } else { fun f() { } }   f()")

ProgFallThrough ==
    Chars("num x = 0   if (true) { fun g() { x = x + 1   if (x > 1) "
          \o "{ return 1 } }   g() }")

ProgNestedScopes ==
    Chars("fun h(num n) { if (n > 0) { h(n - 1) } }   if (true) { "
          \o "h(2) }")

ProgBadAssignment ==
    Chars("1 = 2")

ProgShadowParameter ==
    Chars("fun p(num a) { num a = 1   return a }   p(5)")

ProgShadowInitialiser ==
    Chars("num x = 1   fun f() -> num { num x = x   return x }   num "
          \o "r = f()   r")

ProgGlobalThenBlock ==
    Chars("num x = 1   fun f() { }   if (true) { fun f() { } }   x")

ProgCallInOperation ==
    Chars("fun f() -> num { num y = 1   return 2 }   num r = 10 - "
          \o "f()   r")

ProgStoreShadowed ==
    Chars("num x = 1   fun s(num a) -> num { num x = 2   x = a   "
          \o "return x }   num r = s(5)   x")

ProgCompoundBool ==
    Chars("num x = 1   bool b = x += 1   b")

ProgDeclaredInUntakenIf ==
    Chars("if (false) { fun f() { } }   f()")

ProgShadowInIf ==
    Chars("num x = 1   if (true) { num x = 2 }   x")

ProgReturnAfterFallThrough ==
    Chars("num x = 0   if (true) { if (true) { fun g() { x = x + 1   "
          \o "if (x > 5) { return 1 } }   if (1 > x) { g() } } }   "
          \o "return 7")

\* the tree of ProgConcat
TreeConcat ==
    <<VariableDeclaration("Str", "s",
          Bin(Bin(StringLiteral("hi"), "Concat", Num(42)), "Concat",
              BooleanLiteral(TRUE))),
      Statement(Id("s"))>>

\* the tree of ProgOperators
TreeOperators ==
    <<VariableDeclaration("Num", "a", Bin(Num(7), "Minus", Num(2))),
      VariableDeclaration("Num", "b", Bin(Id("a"), "Divide", Num(2))),
      VariableDeclaration("Num", "c",
          Bin(Bin(Num(2), "Power", Num(3)), "Modulo", Num(5))),
      VariableDeclaration("Bool", "d", Bin(Id("a"), "NotEquals", Id("b"))),
      VariableDeclaration("Bool", "e", Bin(Id("a"), "GreaterThanOrEqual", Id("b"))),
      VariableDeclaration("Bool", "f", Bin(Id("a"), "LessThanOrEqual", Id("b"))),
      VariableDeclaration("Bool", "g", Bin(Id("a"), "Equals", Id("b"))),
      Statement(FunctionCall("print", <<Id("a"), Id("b"), Id("d")>>)),
      Statement(MethodCall(StringLiteral("abc"), "len", <<>>)),
      Statement(MethodCall(Id("c"), "to_string", <<>>))>>

\* the tree of ProgUnary
TreeUnary == <<ReturnStatement(UnaryOperation("UnaryMinus", Num(3)))>>

\* the tree of ProgUnknownMethod
TreeUnknownMethod == <<Statement(MethodCall(Num(7), "len", <<>>))>>

\* the texts, and the trees of the first four of them
ProgramTexts ==
    <<ProgConcat, ProgOperators, ProgUnary, ProgUnknownMethod, ProgArith,
      ProgIfElseScope, ProgIfScope, ProgFib, ProgFibGreater,
      ProgTwoDeclarations, ProgAssignments, ProgSameNameFunctions,
      ProgSameNameInBlocks, ProgFallThrough, ProgNestedScopes,
      ProgBadAssignment, ProgShadowParameter, ProgShadowInitialiser,
      ProgGlobalThenBlock, ProgCallInOperation, ProgStoreShadowed,
      ProgCompoundBool, ProgDeclaredInUntakenIf, ProgShadowInIf,
      ProgReturnAfterFallThrough>>

ProgramTrees == <<TreeConcat, TreeOperators, TreeUnary, TreeUnknownMethod>>

ParamNames == <<"a", "b", "c", "d">>

DigitChars == <<"0", "1", "2", "3", "4", "5", "6", "7", "8", "9">>

\* a natural number as the language writes it
RECURSIVE DecimalText(_)
DecimalText(n) ==
    IF n < 10 THEN <<DigitChars[n + 1]>>
    ELSE DecimalText(n \div 10) \o <<DigitChars[(n % 10) + 1]>>

\* the items of a list, written with ", " between them
RECURSIVE CommaSeparated(_)
CommaSeparated(items) ==
    IF items = <<>> THEN <<>>
    ELSE IF Len(items) = 1 THEN items[1]
    ELSE items[1] \o Chars(", ") \o CommaSeparated(Tail(items))

\* the parameter list with the given optional flags: num a[*], num b[*], ...
FamilyParameters(flags) ==
    CommaSeparated([i \in 1..Len(flags) |->
        Chars("num ") \o <<ParamNames[i]>> \o (IF flags[i] THEN <<"*">> ELSE <<>>)])

\* the k arguments 7, 9, 11, ...
FamilyArguments(k) == CommaSeparated([i \in 1..k |-> DecimalText(5 + 2 * i)])

\* scenario 2, for every parameter list of at most MaxParams parameters and
\* every argument count:  fun f(...) -> num { return a }   f(7, 9, ...)
ProgCall(flags, k) ==
    Chars("fun f(") \o FamilyParameters(flags) \o Chars(") -> num { return ")
    \o (IF Len(flags) = 0 THEN <<"0">> ELSE <<"a">>)
    \o Chars(" }   f(") \o FamilyArguments(k) \o <<")">>

\* how the language writes each binary operator
Spelling(op) ==
    CASE op = "Plus" -> <<"+">> [] op = "Minus" -> <<"-">> [] op = "Multiply" -> <<"*">>
      [] op = "Divide" -> <<"/">> [] op = "Power" -> <<"*", "*">> [] op = "Modulo" -> <<"%">>
      [] op = "AssignEquals" -> <<"=">> [] op = "AddAssign" -> <<"+", "=">>
      [] op = "SubAssign" -> <<"-", "=">> [] op = "MulAssign" -> <<"*", "=">>
      [] op = "DivAssign" -> <<"/", "=">> [] op = "PowAssign" -> <<"*", "*", "=">>
      [] op = "ModAssign" -> <<"%", "=">> [] op = "LogicalOr" -> <<"|", "|">>
      [] op = "LogicalAnd" -> <<"&", "&">> [] op = "Concat" -> <<".", ".">>
      [] op = "Equals" -> <<"=", "=">> [] op = "NotEquals" -> <<"!", "=">>
      [] op = "GreaterThan" -> <<">">> [] op = "LessThan" -> <<"<">>
      [] op = "GreaterThanOrEqual" -> <<">", "=">> [] op = "LessThanOrEqual" -> <<"<", "=">>

BooleanText(b) == IF b THEN Chars("true") ELSE Chars("false")

\* scenario 3:  bool t = A && B   t   (or ||; the right operand B, or 1 / 0 == 1)
ProgLogical(op, a, b, failing) ==
    Chars("bool t = ") \o BooleanText(a) \o <<" ">> \o Spelling(op) \o <<" ">>
    \o (IF failing THEN Chars("1 / 0 == 1") ELSE BooleanText(b)) \o Chars("   t")

\* the tree of ProgLogical
TreeLogical(op, a, b, failing) ==
    <<VariableDeclaration("Bool", "t",
          Bin(BooleanLiteral(a), op, IF failing THEN DivByZero ELSE BooleanLiteral(b))),
      Statement(Id("t"))>>

\* the operators of check_binary_operation and of compile_node's BinaryOperation
BinaryOperators ==
    {"Plus", "Minus", "Multiply", "Divide", "Power", "Modulo",
     "AssignEquals", "AddAssign", "SubAssign", "MulAssign", "DivAssign",
     "PowAssign", "ModAssign", "LogicalAnd", "LogicalOr", "Concat",
     "Equals", "NotEquals", "GreaterThan", "LessThan", "GreaterThanOrEqual",
     "LessThanOrEqual"}

\* the types of lexer.rs, enum Type
Types == {"Num", "Str", "Bool", "Void"}

\* an operand expression of the given type: 7 or 2, "hi" or "yo", true or
\* false, and the call print() of the native function, which is Void
OperandText(type, is_left) ==
    CASE type = "Num" -> IF is_left THEN <<"7">> ELSE <<"2">>
      [] type = "Str" -> IF is_left THEN Chars("\"hi\"") ELSE Chars("\"yo\"")
      [] type = "Bool" -> BooleanText(is_left)
      [] type = "Void" -> Chars("print()")

\* the tree of an operand
Operand(type, is_left) ==
    CASE type = "Num" -> Num(IF is_left THEN 7 ELSE 2)
      [] type = "Str" -> StringLiteral(IF is_left THEN "hi" ELSE "yo")
      [] type = "Bool" -> BooleanLiteral(is_left)
      [] type = "Void" -> FunctionCall("print", <<>>)

\* the statement  L op R  for operands of the given types
ProgBinary(op, left, right) ==
    OperandText(left, TRUE) \o <<" ">> \o Spelling(op) \o <<" ">>
    \o OperandText(right, FALSE)

\* the tree of ProgBinary
TreeBinary(op, left, right) ==
    <<Statement(Bin(Operand(left, TRUE), op, Operand(right, FALSE)))>>

MaxSourceLen == 3

\* the characters of the lexer's operator table, a letter, a digit, a space
OperatorChars == {"=", "!", "-", "+", "*", "/", "%", ">", "<", "(", ")", "{", "}", ",", "."}
SourceChars == OperatorChars \cup {"a", "1", " "}

\* the text  a op b  or  a op1 b op2 c
TextExpression(ops) ==
    <<"a", " ">> \o Spelling(ops[1]) \o <<" ", "b">>
    \o (IF Len(ops) = 1 THEN <<>> ELSE <<" ">> \o Spelling(ops[2]) \o <<" ", "c">>)

\* fun add(num a, num b*) -> num { \n   return a + b \n } \n num x = add(1, 2.5) // sum \n if (x >= 3) { print("hi") } else { x = -1 }
TextFunction ==
    <<"f", "u", "n", " ", "a", "d", "d", "(", "n", "u", "m", " ",
      "a", ",", " ", "n", "u", "m", " ", "b", "*", ")", " ", "-",
      ">", " ", "n", "u", "m", " ", "{", "\n", " ", " ", "r", "e",
      "t", "u", "r", "n", " ", "a", " ", "+", " ", "b", "\n", "}",
      "\n", "n", "u", "m", " ", "x", " ", "=", " ", "a", "d", "d",
      "(", "1", ",", " ", "2", ".", "5", ")", " ", "/", "/", " ",
      "s", "u", "m", "\n", "i", "f", " ", "(", "x", " ", ">", "=",
      " ", "3", ")", " ", "{", " ", "p", "r", "i", "n", "t", "(",
      "\"", "h", "i", "\"", ")", " ", "}", " ", "e", "l", "s", "e",
      " ", "{", " ", "x", " ", "=", " ", "-", "1", " ", "}">>

\* num r = 2 + 3 * 4; r
TextPrecedence ==
    <<"n", "u", "m", " ", "r", " ", "=", " ", "2", " ", "+", " ",
      "3", " ", "*", " ", "4", ";", " ", "r">>

\* bool b = 1 < 2
TextLessThan ==
    <<"b", "o", "o", "l", " ", "b", " ", "=", " ", "1", " ", "<",
      " ", "2">>

\* str s = "hi" .. 42 .. true
TextConcat ==
    <<"s", "t", "r", " ", "s", " ", "=", " ", "\"", "h", "i", "\"",
      " ", ".", ".", " ", "4", "2", " ", ".", ".", " ", "t", "r",
      "u", "e">>

\* num p = 2 ** 3 % 5
TextPower ==
    <<"n", "u", "m", " ", "p", " ", "=", " ", "2", " ", "*", "*",
      " ", "3", " ", "%", " ", "5">>

\* num d = 5 -3
TextSubtract ==
    <<"n", "u", "m", " ", "d", " ", "=", " ", "5", " ", "-", "3">>

\* chars outside ASCII: letters and a superscript digit in an identifier,
\* U+00A0, U+000B and U+1680 as whitespace, and a string with a backslash,
\* U+0085 and U+00AD where a ')' is expected
TextUnicode == Chars("num aéλ² = 1  (2 \"q\\λ­\"")

FixedTexts ==
    <<TextFunction, TextPrecedence, TextLessThan, TextConcat, TextPower, TextSubtract,
      TextUnicode>>

\* the source texts, by descriptor
SourceIds ==
    {[fam |-> "chars", text |-> t] :
        t \in UNION {[1..n -> SourceChars] : n \in 1..MaxSourceLen}}
    \cup {[fam |-> "expression", ops |-> o] :
            o \in UNION {[1..n -> BinaryOperators] : n \in 1..2}}
    \cup {[fam |-> "text", id |-> i] : i \in 1..Len(FixedTexts)}

\* the text of a program or of a source, by descriptor
Source(p) ==
    CASE p.fam = "fixed" -> ProgramTexts[p.id]
      [] p.fam = "call" -> ProgCall(p.flags, p.k)
      [] p.fam = "logical" ->
            ProgLogical(IF p.id = 1 THEN "LogicalAnd" ELSE "LogicalOr",
                        p.flags[1], p.flags[2], p.k = 1)
      [] p.fam = "binary" -> ProgBinary(p.op, p.left, p.right)
      [] p.fam = "chars" -> p.text
      [] p.fam = "expression" -> TextExpression(p.ops)
      [] p.fam = "text" -> FixedTexts[p.id]

\* the tree of a program that has one, by descriptor
Tree(p) ==
    CASE p.fam = "fixed" -> ProgramTrees[p.id]
      [] p.fam = "logical" ->
            TreeLogical(IF p.id = 1 THEN "LogicalAnd" ELSE "LogicalOr",
                        p.flags[1], p.flags[2], p.k = 1)
      [] p.fam = "binary" -> TreeBinary(p.op, p.left, p.right)

\* Lexer::new(&source).tokenize(), then Parser::new(tokens).parse_program()
parsed_tokens(r) ==
    IF r.err # "" THEN [err |-> r.err, node |-> <<>>] ELSE parse_program(r.tokens)

front_end(source) == parsed_tokens(tokenize(source))

\* the programs as texts, and as trees where there is one
Descriptors ==
    {[fam |-> "fixed", id |-> i, flags |-> <<>>, k |-> 0, direct |-> d] :
        i \in 1..Len(ProgramTexts), d \in BOOLEAN}
    \cup {[fam |-> "call", id |-> 0, flags |-> fl, k |-> k, direct |-> FALSE] :
            fl \in UNION {[1..n -> BOOLEAN] : n \in 0..MaxParams},
            k \in 0..(MaxParams + 1)}
    \cup {[fam |-> "logical", id |-> i, flags |-> fl, k |-> k, direct |-> d] :
            i \in 1..2, fl \in [1..2 -> BOOLEAN], k \in 0..1, d \in BOOLEAN}
    \cup {[fam |-> "binary", op |-> o, left |-> l, right |-> r, direct |-> d] :
            o \in BinaryOperators, l \in Types, r \in Types, d \in BOOLEAN}

HasTree(p) == p.fam = "fixed" => p.id <= Len(ProgramTrees)

\* the corpus: every text, and the tree of each text that the lexer or the
\* parser rejects
ProgramIds ==
    {p \in Descriptors : p.direct => HasTree(p) /\ front_end(Source(p)).err # ""}

-----------------------------------------------------------------------------
(* The pipeline *)

\* nothing tokenized or parsed, and the state of VM::new
NotRun == [err |-> "", tokens |-> <<>>, node |-> <<>>]

NotTyped == [ok |-> FALSE, ty |-> "", err |-> ""]

Fresh ==
    /\ lexed = NotRun
    /\ tree = NotRun
    /\ typing = NotTyped
    /\ check = ""
    /\ instructions = <<>>
    /\ pc = 0
    /\ stack = <<>>
    /\ scopes = <<EmptyMap>>
    /\ call_stack = <<>>
    /\ functions = EmptyMap
    /\ result = None
    /\ err = ""
    /\ stdout = <<>>
    /\ executed = {}
    /\ origin = <<Pushed("global", 0, 0, 0)>>

Init ==
    /\ prog \in ProgramIds
    /\ stage = IF prog.direct THEN "tree" ELSE "source"
    /\ Fresh

\* the Result of tokenize and of parse_program, as the variables hold them
Lexed(r) == [NotRun EXCEPT !.err = r.err, !.tokens = r.tokens]
Parsed(r) == [NotRun EXCEPT !.err = r.err, !.node = r.node]

\* Lexer::new(&source).tokenize()
Tokenize ==
    /\ stage = "source"
    /\ lexed' = Lexed(tokenize(Source(prog)))
    /\ stage' = IF lexed'.err # "" THEN "lex_error" ELSE "tokens"
    /\ UNCHANGED <<prog, check, instructions, pc, stack, scopes, call_stack, functions,
                   result, err, stdout, executed, origin, tree, typing>>

\* Parser::new(tokens).parse_program()
Parse ==
    /\ stage = "tokens"
    /\ tree' = Parsed(parse_program(lexed.tokens))
    /\ stage' = IF tree'.err # "" THEN "parse_error" ELSE "parsed"
    /\ UNCHANGED <<prog, check, instructions, pc, stack, scopes, call_stack, functions,
                   result, err, stdout, executed, origin, lexed, typing>>

\* the statements of the program: what parse_program returned, or the tree
\* the program is given as
Statements == IF prog.direct THEN Tree(prog) ELSE tree.node

\* TypeChecker::new(program).check_program()
TypeCheck ==
    /\ stage \in {"parsed", "tree"}
    /\ check' = check_program(Statements)
    /\ stage' = "checked"
    /\ UNCHANGED <<prog, instructions, pc, stack, scopes, call_stack, functions,
                   result, err, stdout, executed, origin, lexed, tree, typing>>

\* Bytecode::new(program).compile(), and VM::new(instructions) on success
Compile ==
    /\ stage = "checked"
    /\ LET c == compile(Statements)
       IN  IF c.err # ""
           THEN stage' = "compile_error" /\ err' = c.err /\ UNCHANGED instructions
           ELSE stage' = "running" /\ instructions' = c.instructions /\ UNCHANGED err
    /\ UNCHANGED <<prog, check, pc, stack, scopes, call_stack, functions, result,
                   stdout, executed, origin, lexed, tree, typing>>

Next ==
    \/ Tokenize
    \/ Parse
    \/ TypeCheck
    \/ Compile
    \/ PushNumber
    \/ PushString
    \/ PushBooleanStep
    \/ PushVoid
    \/ Pop
    \/ LoadVariable
    \/ StoreVariable
    \/ DeclareVariable
    \/ Add
    \/ Subtract
    \/ Multiply
    \/ Divide
    \/ Power
    \/ Modulo
    \/ Concat
    \/ Equals
    \/ NotEquals
    \/ GreaterThan
    \/ LessThan
    \/ GreaterThanOrEqual
    \/ LessThanOrEqual
    \/ Jump
    \/ JumpIfFalse
    \/ DeclareFunction
    \/ CallNative
    \/ Call
    \/ CallMethod
    \/ Return
    \/ EnterScope
    \/ ExitScope
    \/ End

Spec == Init /\ [][Next]_vars

\* the stages in which the pipeline has stopped with an error
Failed == {"lex_error", "parse_error", "compile_error", "error"}

\* the match of VM::run has an arm for the instruction at pc: the VM has a
\* step there.  Negate, LogicalNot and JumpIfTrue have none (the match is not
\* exhaustive, rustc E0004), so a run that reaches one goes no further
Handled == ENABLED Next

-----------------------------------------------------------------------------
(* The front end on source texts: Lexer::tokenize, then Parser::parse_program *)

InitFront ==
    /\ prog \in SourceIds
    /\ stage = "source"
    /\ Fresh

NextFront ==
    \/ Tokenize
    \/ Parse

SpecFront == InitFront /\ [][NextFront]_vars

-----------------------------------------------------------------------------
(* The type checker on one binary operation: check_binary_operation on     *)
(* L op R for every operator and every pair of operand types               *)

\* an operand of each type, and on the right also an identifier that is not
\* declared (typing it is an error)
TypingIds ==
    {[fam |-> "typing", op |-> o, left |-> l, right |-> r] :
        o \in BinaryOperators, l \in Types, r \in Types \cup {"Undeclared"}}

TypingOperation(p) ==
    Bin(Operand(p.left, TRUE), p.op,
        IF p.right = "Undeclared" THEN Id("u") ELSE Operand(p.right, FALSE))

InitTyping ==
    /\ prog \in TypingIds
    /\ stage = "operands"
    /\ Fresh

\* TypeChecker::new(..).check_node(&BinaryOperation { left, op, right })
CheckBinary ==
    /\ stage = "operands"
    /\ LET r == check_binary_operation(NewTypeChecker, TypingOperation(prog))
       IN  typing' = [ok |-> r.ok, ty |-> r.ty, err |-> r.err]
    /\ stage' = "typed"
    /\ UNCHANGED <<prog, check, instructions, pc, stack, scopes, call_stack, functions,
                   result, err, stdout, executed, origin, lexed, tree>>

NextTyping == CheckBinary

SpecTyping == InitTyping /\ [][NextTyping]_vars

-----------------------------------------------------------------------------
(* Static structure of the emitted instruction vector *)

\* indices (0-based) of the instructions with the given opcode
Sites(op) == {i \in 0..(Len(instructions) - 1) : instructions[i + 1].op = op}

\* number of instructions with the given opcode among the indices lo..hi
CountOp(op, lo, hi) == Cardinality({i \in lo..hi : instructions[i + 1].op = op})

\* EnterScope and ExitScope are emitted in nested pairs: the EnterScope that
\* the ExitScope at index x closes (-1 when there is none)
MatchingEnter(x) ==
    LET open == {e \in 0..(x - 1) :
                    /\ instructions[e + 1].op = "EnterScope"
                    /\ CountOp("EnterScope", e + 1, x - 1)
                         = CountOp("ExitScope", e + 1, x - 1)}
    IN  IF open = {} THEN -1 ELSE CHOOSE e \in open : \A f \in open : f <= e

\* the ExitScope that closes the EnterScope at index e (-1 when there is none)
MatchingExit(e) ==
    LET close == {x \in (e + 1)..(Len(instructions) - 1) :
                     /\ instructions[x + 1].op = "ExitScope"
                     /\ CountOp("EnterScope", e + 1, x - 1)
                          = CountOp("ExitScope", e + 1, x - 1)}
    IN  IF close = {} THEN -1 ELSE CHOOSE x \in close : \A y \in close : x <= y

-----------------------------------------------------------------------------
(* C1: short-circuit evaluation of && and || *)

\* In the programs  bool t = A op B   t  the emitted code is
\*   DeclareVariable t; <A>; JumpIfFalse|JumpIfTrue skip; <B>; Jump end;
\*   skip: PushBoolean; end: StoreVariable t; ...
ShortCircuitJump ==
    CHOOSE j \in Sites("JumpIfFalse") \cup Sites("JumpIfTrue") : TRUE

RightOperandCode ==
    {i \in 0..(Len(instructions) - 1) :
        /\ ShortCircuitJump < i
        /\ \E j \in Sites("Jump") : i < j}

RightOperandRan == RightOperandCode \cap executed # {}

\* C1: for a && b the code of b is executed iff a is true, for a || b iff a is
\* false; the expression leaves exactly one Boolean, its logical value, on the
\* operand stack; and a right operand that is not to be evaluated raises no
\* error even when evaluating it would fail (false && 1 / 0 == 1).
C1_ShortCircuit ==
    prog.fam = "logical" =>
        LET a == prog.flags[1]
            b == prog.flags[2]
            is_and == prog.id = 1
            failing == prog.k = 1
            runs_b == IF is_and THEN a ELSE ~a
            value == IF is_and THEN a /\ b ELSE a \/ b
        IN  /\ stage = "running" => Handled
            /\ RightOperandRan => runs_b
            /\ stage \in {"done", "error"} => (RightOperandRan <=> runs_b)
            /\ ~runs_b => stage # "error"
            /\ (stage = "running" /\ cur.op = "StoreVariable" /\ ~(failing /\ runs_b))
                  => stack = <<Boolean(value)>>

-----------------------------------------------------------------------------
(* C2: the value of a trailing expression statement is the program result *)

\* C2: when the last top-level statement is an expression statement, run
\* returns that expression's value:  num x = 2 + 3 * 4  x  yields Number(14),
\* and  fun f(num a, num b*) -> num { return a }  followed by f(7) or f(7, 9)
\* yields Number(7).
C2_LastExpressionIsResult ==
    /\ Source(prog) = ProgArith =>
          /\ stage \notin Failed
          /\ stage = "done" => result = Some(Number(FromInt(14)))
    /\ Source(prog) \in {ProgCall(<<FALSE, TRUE>>, 1), ProgCall(<<FALSE, TRUE>>, 2)} =>
          /\ stage \notin Failed
          /\ stage = "done" => result = Some(Number(FromInt(7)))

-----------------------------------------------------------------------------
(* C3: if/else bodies that return on both branches *)

\* C3: the type checker accepts a function with declared return type num
\* whose body ends in an if/else that returns a num on both branches; the
\* recursive fib program passes every stage and fib(10) evaluates to Number(55).
C3_FibAcceptedAndEvaluated ==
    Source(prog) \in {ProgFib, ProgFibGreater} =>
        /\ stage \notin Failed
        /\ check \in {"", "ok"}
        /\ stage = "done" => result = Some(Number(FromInt(55)))

-----------------------------------------------------------------------------
(* C4: block scoping in the type checker *)

\* C4: a variable declared in the then-body or else-body of an if statement
\* is not visible after the if statement: a later reference to it is reported
\* by check_program as the unknown-identifier error.
C4_IfBodiesAreScopes ==
    (Source(prog) \in {ProgIfElseScope, ProgIfScope} /\ check # "") =>
        check = "Unknown identifier 'a'"

-----------------------------------------------------------------------------
(* C5: operand stack depth at program end *)

\* the VM is about to execute the instruction that ends a successful run:
\* End, or a Return outside every call
AtProgramEnd ==
    /\ stage = "running" /\ pc < Len(instructions)
    /\ \/ cur.op = "End"
       \/ cur.op = "Return" /\ call_stack = <<>>

\* C5: in every run that completes without error the operand stack holds 0 or
\* 1 values when End (or the top-level Return) is executed.
C5_StackAtMostOneAtEnd == AtProgramEnd => Len(stack) <= 1

-----------------------------------------------------------------------------
(* C6, C7, C8: calls of user functions *)

\* number of non-optional parameters
RequiredCount(parameters) ==
    Cardinality({i \in 1..Len(parameters) : ~parameters[i].optional})

\* the VM has just entered a function body: the scope pushed by Call is below
\* the scope pushed by the body's EnterScope, and pc is at the first statement
AtFirstBodyStatement ==
    /\ stage = "running" /\ call_stack # <<>> /\ Len(origin) >= 2
    /\ Top(origin).by = "enter" /\ pc = Top(origin).at + 1
    /\ origin[Len(origin) - 1].by = "call"
    /\ Top(call_stack).scope_index = Len(scopes) - 2

\* the Call instruction that pushed the scope at position i of the scope stack
CallOf(i) == instructions[origin[i].at + 1]

\* the bindings a call of k arguments 7, 9, ... is to produce
FamilyBindings(parameters, k) ==
    [name \in {parameters[i].name : i \in 1..Len(parameters)} |->
        LET i == CHOOSE j \in 1..Len(parameters) : parameters[j].name = name
        IN  IF i <= k THEN Number(FromInt(5 + 2 * i)) ELSE Void]

\* C6: for a call with k arguments of a function with n parameters,
\* required <= k <= n, when the first statement of the body executes the
\* innermost scope holds exactly the n parameter bindings: parameter i bound
\* to argument i for i <= k, the others to Void.
C6_InnermostScopeHoldsParameters ==
    AtFirstBodyStatement =>
        LET call == CallOf(Len(origin) - 1)
            parameters == functions[call.s].parameters
            k == call.n
        IN  (RequiredCount(parameters) <= k /\ k <= Len(parameters)) =>
                /\ DOMAIN scopes[Len(scopes)]
                     = {parameters[i].name : i \in 1..Len(parameters)}
                /\ prog.fam = "call" =>
                     scopes[Len(scopes)] = FamilyBindings(parameters, k)

\* the step of Call(name, n) on a declared user function
CallArityStep ==
    (At("Call") /\ cur.s \notin vm_native_functions /\ MapHas(functions, cur.s)) =>
        LET function == functions[cur.s]
            p == Len(function.parameters)
            r == RequiredCount(function.parameters)
            n == cur.n
            entered == /\ stage' = "running"
                       /\ pc' = function.address
                       /\ Len(call_stack') = Len(call_stack) + 1
            refused == /\ stage' = "error"
                       /\ call_stack' = call_stack
        IN  /\ IF r <= n /\ n <= p THEN entered ELSE refused
            /\ (check = "ok" /\ n <= p) => entered

\* C7: Call(name, n) on a user function with p parameters, r of them
\* non-optional, enters the body iff r <= n <= p and fails with the
\* argument-count error otherwise; a call the type checker accepts that
\* passes at most p arguments is entered.
C7_CallEntersIffArityFits == [][CallArityStep]_vars

\* C8: in every call accepted by the type checker and the VM each
\* non-optional parameter is bound to a supplied argument, and the parameters
\* bound to Void are optional and form a suffix of the parameter list.
C8_RequiredParametersBound ==
    (check = "ok" /\ AtFirstBodyStatement) =>
        LET call == CallOf(Len(origin) - 1)
            parameters == functions[call.s].parameters
            bound == Top(call_stack).variables
            unset(i) == bound[parameters[i].name] = Void
        IN  \A i \in 1..Len(parameters) :
                /\ ~parameters[i].optional => ~unset(i)
                /\ unset(i) => \A j \in i..Len(parameters) :
                                   parameters[j].optional /\ unset(j)

-----------------------------------------------------------------------------
(* C9: EnterScope / ExitScope balance *)

\* positions of the scope stack whose scope was pushed by the EnterScope at e
LiveEnters(e) ==
    {i \in 1..Len(origin) : origin[i].by = "enter" /\ origin[i].at = e}

\* C9: when the ExitScope of an emitted EnterScope/ExitScope pair has been
\* executed, the scope stack is as deep as it was before the pair's
\* EnterScope was executed.
C9_ScopeDepthRestored ==
    (At("ExitScope") /\ LiveEnters(MatchingEnter(pc)) # {}) =>
        LET live == LiveEnters(MatchingEnter(pc))
            i == CHOOSE x \in live : \A y \in live : y <= x
            after == IF Len(scopes) <= 1 THEN 1 ELSE Len(scopes) - 1
        IN  after = origin[i].depth

-----------------------------------------------------------------------------
(* C10: the jump over a function body *)

\* C10: in the output of compile every DeclareFunction is followed by an
\* unconditional Jump whose target is the index just after the ExitScope of
\* that function's body, also when two functions have the same name.
C10_JumpSkipsOwnBody ==
    stage = "running" =>
        \A i \in Sites("DeclareFunction") :
            /\ i + 2 < Len(instructions)
            /\ instructions[i + 2].op = "Jump"
            /\ instructions[i + 3].op = "EnterScope"
            /\ instructions[i + 2].n = MatchingExit(i + 2) + 1

\* a Concat step of a program  L .. R  that the type checker accepted
AcceptedConcatStep ==
    (At("Concat") /\ prog.fam = "binary" /\ prog.op = "Concat" /\ check = "ok") =>
        /\ stage' = "running"
        /\ Len(stack') = Len(stack) - 1
        /\ Top(stack').t = "String"

\* C11: for every pair of operand types the type checker accepts for `..`
\* (neither side Void) the VM's Concat succeeds and pushes a String; it fails
\* only when an operand is Void.
C11_ConcatAcceptsNonVoid == [][AcceptedConcatStep]_vars

\* the level of a binary operator in the precedence table, lowest first
PrecedenceLevel(op) ==
    CASE op \in {"AssignEquals", "AddAssign", "SubAssign", "MulAssign", "DivAssign",
                 "PowAssign", "ModAssign"} -> 0
      [] op = "LogicalOr" -> 1
      [] op = "LogicalAnd" -> 2
      [] op \in {"Equals", "NotEquals", "GreaterThan", "LessThan", "GreaterThanOrEqual",
                 "LessThanOrEqual"} -> 3
      [] op \in {"Plus", "Minus", "Concat"} -> 4
      [] op \in {"Multiply", "Divide", "Modulo"} -> 5
      [] op = "Power" -> 6

\* a op1 (b op2 c)  and  (a op1 b) op2 c
GroupedRight(ops) == Bin(Id("a"), ops[1], Bin(Id("b"), ops[2], Id("c")))
GroupedLeft(ops) == Bin(Bin(Id("a"), ops[1], Id("b")), ops[2], Id("c"))

\* the parser has finished with the tokens of the text: an AST or an error
ParserDone == stage \in {"parsed", "parse_error"}

\* C12: the parser accepts every binary operator of the precedence table in
\* an expression, and of two operators of different levels the one of the
\* higher level binds tighter:  a op b  parses to that operation, and
\* a op1 b op2 c  to  a op1 (b op2 c)  when op2 is of the higher level and to
\* (a op1 b) op2 c  when op1 is.
C12_PrecedenceByLevel ==
    (ParserDone /\ prog.fam = "expression") =>
        /\ stage = "parsed"
        /\ Len(prog.ops) = 1 =>
                tree.node = <<Statement(Bin(Id("a"), prog.ops[1], Id("b")))>>
        /\ (Len(prog.ops) = 2 /\ PrecedenceLevel(prog.ops[1]) < PrecedenceLevel(prog.ops[2])) =>
                tree.node = <<Statement(GroupedRight(prog.ops))>>
        /\ (Len(prog.ops) = 2 /\ PrecedenceLevel(prog.ops[1]) > PrecedenceLevel(prog.ops[2])) =>
                tree.node = <<Statement(GroupedLeft(prog.ops))>>

\* the operators the precedence table marks right-associative
RightAssociative ==
    {"AssignEquals", "AddAssign", "SubAssign", "MulAssign", "DivAssign", "PowAssign",
     "ModAssign", "Power"}

\* C13: a op b op c  parses to  a op (b op c)  for every assignment operator
\* and for **, and to  (a op b) op c  for every other binary operator.
C13_Associativity ==
    (ParserDone /\ prog.fam = "expression" /\ Len(prog.ops) = 2
        /\ prog.ops[1] = prog.ops[2]) =>
        /\ stage = "parsed"
        /\ tree.node = <<Statement(IF prog.ops[1] \in RightAssociative
                                   THEN GroupedRight(prog.ops)
                                   ELSE GroupedLeft(prog.ops))>>

\* the operator disambiguation table: the token of a prefix character alone
\* ("" for '!', which alone is an error)
SingleToken(c) ==
    CASE c = "=" -> TokenOperator("AssignEquals") [] c = "!" -> NoToken
      [] c = "-" -> TokenOperator("Minus") [] c = "+" -> TokenOperator("Plus")
      [] c = "*" -> TokenOperator("Multiply") [] c = "/" -> TokenOperator("Divide")
      [] c = "%" -> TokenOperator("Modulo") [] c = ">" -> TokenOperator("GreaterThan")
      [] c = "<" -> TokenOperator("LessThan") [] c = "(" -> Token("LeftParen", "")
      [] c = ")" -> Token("RightParen", "") [] c = "{" -> Token("LeftBrace", "")
      [] c = "}" -> Token("RightBrace", "") [] c = "," -> Token("Comma", "")
      [] c = "." -> Token("Period", "")

\* the table's compound token of a prefix and its continuation ("" when the
\* table lists none)
CompoundToken(c, next) ==
    CASE c = "=" /\ next = "=" -> TokenOperator("Equals")
      [] c = "!" /\ next = "=" -> TokenOperator("NotEquals")
      [] c = "-" /\ next = "=" -> TokenOperator("SubAssign")
      [] c = "-" /\ next = ">" -> Token("Arrow", "")
      [] c = "+" /\ next = "=" -> TokenOperator("AddAssign")
      [] c = "*" /\ next = "=" -> TokenOperator("MulAssign")
      [] c = "*" /\ next = "*" -> TokenOperator("Power")
      [] c = "/" /\ next = "=" -> TokenOperator("DivAssign")
      [] c = "%" /\ next = "=" -> TokenOperator("ModAssign")
      [] c = ">" /\ next = "=" -> TokenOperator("GreaterThanOrEqual")
      [] c = "<" /\ next = "=" -> TokenOperator("LessThanOrEqual")
      [] OTHER -> NoToken

\* the longest token of the table at the head of a text, and its length
LongestMatch(text) ==
    IF Len(text) >= 3 /\ SubSeq(text, 1, 3) = <<"*", "*", "=">>
    THEN [token |-> TokenOperator("PowAssign"), len |-> 3]
    ELSE IF Len(text) >= 2 /\ CompoundToken(text[1], text[2]) # NoToken
    THEN [token |-> CompoundToken(text[1], text[2]), len |-> 2]
    ELSE [token |-> SingleToken(text[1]), len |-> 1]

\* a text that is one operator of the table followed only by spaces and the
\* identifier a (and is not the start of a // comment)
OperatorThenPlain ==
    /\ prog.fam = "chars"
    /\ prog.text[1] \in OperatorChars
    /\ ~(Len(prog.text) >= 2 /\ prog.text[1] = "/" /\ prog.text[2] = "/")
    /\ \A k \in (LongestMatch(prog.text).len + 1)..Len(prog.text) :
            prog.text[k] \in {"a", " "}

\* C14: at an operator character tokenize emits the compound token of the
\* disambiguation table when the continuation follows, preferring the
\* longest match, and the single-character token otherwise; '!' alone is an
\* error.
C14_OperatorDisambiguation ==
    (stage \in {"tokens", "lex_error"} /\ OperatorThenPlain) =>
        LET m == LongestMatch(prog.text)
        IN  IF m.token = NoToken THEN stage = "lex_error"
            ELSE /\ stage = "tokens"
                 /\ lexed.tokens # <<>>
                 /\ lexed.tokens[1] = m.token

\* the rows that the claim lists: the result type of  L op R  for operand
\* types L and R, "" when the combination is a type error; an operator of
\* no row is a type error for every pair
ListedRowsType(op, l, r) ==
    CASE op \in {"Plus", "Minus", "Multiply", "Divide", "Power", "Modulo"} ->
            IF l = "Num" /\ r = "Num" THEN "Num" ELSE ""
      [] op \in {"AddAssign", "SubAssign", "MulAssign", "DivAssign", "PowAssign",
                 "ModAssign"} ->
            IF l = "Num" /\ r = "Num" THEN "Bool" ELSE ""
      [] op \in {"GreaterThan", "LessThan", "GreaterThanOrEqual", "LessThanOrEqual"} ->
            IF l = "Num" /\ r = "Num" THEN "Bool" ELSE ""
      [] op \in {"Equals", "NotEquals"} -> IF l = r THEN "Bool" ELSE ""
      [] op \in {"LogicalAnd", "LogicalOr"} -> IF l = "Bool" /\ r = "Bool" THEN "Bool" ELSE ""
      [] op = "AssignEquals" -> IF l = r THEN "Void" ELSE ""
      [] OTHER -> ""

\* the spec's typing matrix: the listed rows and the row of `..`, which needs
\* both operands non-Void and yields Str
MatrixType(op, l, r) ==
    IF op = "Concat" THEN (IF l # "Void" /\ r # "Void" THEN "Str" ELSE "")
    ELSE ListedRowsType(op, l, r)

\* check_binary_operation returned the type, or an error when there is none
TypedAs(type) == IF type = "" THEN ~typing.ok ELSE typing.ok /\ typing.ty = type

\* an operand that cannot be typed is an error, and for && and || a non-Bool
\* left operand is reported before the right operand is typed
OperandErrors ==
    /\ prog.right = "Undeclared" => ~typing.ok
    /\ (prog.op \in {"LogicalAnd", "LogicalOr"} /\ prog.left # "Bool") =>
            typing.err = "Type mismatch: expected 'Bool', found '" \o prog.left \o "'"

\* C15 as stated: check_binary_operation agrees with the rows the claim
\* lists for every binary operator and every pair of operand types in
\* {Num, Str, Bool, Void}, and every other combination, those of `..`
\* included, is a type error.
C15_ListedRowsOnly ==
    stage = "typed" =>
        /\ prog.right \in Types => TypedAs(ListedRowsType(prog.op, prog.left, prog.right))
        /\ OperandErrors

\* C15: check_binary_operation agrees with the spec's typing matrix for
\* every binary operator and every pair of operand types in {Num, Str, Bool,
\* Void}: it returns the type of the listed rows, Str for `..` on two
\* non-Void operands, and an error for every other combination; an operand
\* that cannot be typed is an error, except that for && and || a non-Bool
\* left operand is reported before the right operand is typed.
C15_TypingMatrix ==
    stage = "typed" =>
        /\ prog.right \in Types => TypedAs(MatrixType(prog.op, prog.left, prog.right))
        /\ OperandErrors

\* a compound assignment of two numbers has been typed Bool
C15_Witness ==
    /\ stage = "typed"
    /\ prog.op = "PowAssign" /\ prog.left = "Num" /\ prog.right = "Num"
    /\ typing.ok /\ typing.ty = "Bool"

\* C16: in a type-checked program no LoadVariable(x) reads the placeholder
\* that a DeclareVariable(x) put in a scope and that no StoreVariable(x) has
\* written yet; an initialiser naming a same-named outer variable reads the
\* outer one.
C16_NoLoadOfPlaceholder ==
    (At("LoadVariable") /\ check = "ok") =>
        LET i == get_variable(scopes, cur.s)
        IN  i # 0 => cur.s \notin origin[i].pending

\* a step keeps the global scope: the scope stack stays non-empty and every
\* binding of its first scope is still bound there
GlobalScopeKept ==
    stage = "running" =>
        /\ Len(scopes') >= 1
        /\ \A x \in DOMAIN scopes[1] : x \in DOMAIN scopes'[1]

\* C17: the scope stack is never empty and the global scope is never
\* removed: no ExitScope or Return discards the bindings declared in it.
C17_GlobalScopeNeverRemoved == [][GlobalScopeKept]_vars

\* a LoadVariable of a name last stored in this scope chain pushes the
\* stored value
LoadAfterStore ==
    (At("LoadVariable") /\ MapHas(Top(origin).stored, cur.s)) =>
        /\ stage' = "running"
        /\ stack' = Append(stack, Top(origin).stored[cur.s])

\* C18: after StoreVariable(x) stores v, the next LoadVariable(x) executed
\* with the same scope chain and no StoreVariable(x) or DeclareVariable(x) in
\* between pushes v.
C18_LoadReadsLastStore == [][LoadAfterStore]_vars

\* a LoadVariable is about to read a name that was stored in this scope
\* chain and is bound in two scopes of it
C18_Witness ==
    /\ At("LoadVariable") /\ MapHas(Top(origin).stored, cur.s)
    /\ Cardinality({i \in 1..Len(scopes) : MapHas(scopes[i], cur.s)}) >= 2

\* the function the innermost call frame was pushed for: the name in the
\* Call instruction before the frame's return address
CalledName == instructions[Top(call_stack).return_address].s

\* whether the instruction at p belongs to a compiled body of the function:
\* from the function label after DeclareFunction and Jump up to the trailing
\* ExitScope before the end label the Jump targets
InBody(name, p) ==
    \E k \in 1..(Len(instructions) - 1) :
        /\ instructions[k].op = "DeclareFunction" /\ instructions[k].s = name
        /\ instructions[k + 1].op = "Jump"
        /\ k + 1 <= p /\ p <= instructions[k + 1].n - 1

\* C19: while the frame of a call is on the call stack, control stays in the
\* body of the called function of a type-checked program: it leaves the body
\* only through a Return that pops the frame, never by falling past the
\* body's trailing ExitScope into the code after the declaration.
C19_CallEndsWithReturn ==
    (stage = "running" /\ check = "ok" /\ Len(call_stack) # 0) =>
        InBody(CalledName, pc)

\* the history of the scope the innermost call pushed, when the scope is
\* still on the scope stack
CallScope == origin[Top(call_stack).scope_index + 1]

\* a Return of a call leaves the values below the call's arguments and the
\* return value
ReturnLeavesOneValue ==
    (/\ At("Return") /\ check = "ok" /\ Len(call_stack) # 0
     /\ Top(call_stack).scope_index + 1 <= Len(origin)
     /\ CallScope.by = "call"
     /\ CallScope.at + 1 = Top(call_stack).return_address) =>
        /\ Len(stack') = CallScope.base + 1
        /\ stack' = Append(SubSeq(stack, 1, CallScope.base), Top(stack))

\* C20: when a user-function call returns, the operand stack is the stack as
\* it was before the call's arguments were pushed plus exactly one value, the
\* return value.
C20_ReturnRestoresStack == [][ReturnLeavesOneValue]_vars

\* the kind of runtime value a declared type stands for
KindOfType(ty) ==
    CASE ty = "Num" -> "Number"
      [] ty = "Str" -> "String"
      [] ty = "Bool" -> "Boolean"
      [] OTHER -> "Void"

\* the variables of scope i that DeclareVariable declared and a StoreVariable
\* has initialised
Initialised(i) ==
    {x \in DOMAIN origin[i].declared : x \notin origin[i].pending}

\* C21: in a run of a program the type checker accepts, a variable declared
\* with type T holds, after its initialising store, only values of the kind
\* of T.
C21_TypePreservation ==
    (stage = "running" /\ check = "ok") =>
        \A i \in 1..Len(scopes) : \A x \in Initialised(i) :
            MapHas(scopes[i], x) =>
                scopes[i][x].t = KindOfType(origin[i].declared[x])

\* a CallMethod whose receiver's kind has no method of the name ends the
\* run with an error
UnregisteredMethodFails ==
    (/\ At("CallMethod") /\ Len(stack) >= cur.n + 1
     /\ ~method_registered(stack[Len(stack) - cur.n], cur.s)) =>
        stage' = "error"

\* C22: CallMethod(name, n) returns a runtime error whenever no method of
\* the name is registered for the receiver's kind; it never completes
\* without pushing a result.
C22_UnregisteredMethodIsError == [][UnregisteredMethodFails]_vars

\* the two-operand arithmetic and comparison instructions
ArithmeticAndComparison ==
    {"Add", "Subtract", "Multiply", "Divide", "Power", "Modulo", "Equals",
     "NotEquals", "GreaterThan", "LessThan", "GreaterThanOrEqual",
     "LessThanOrEqual"}

\* such an instruction, run on two operands, replaces them by one result or
\* ends the run with an error
PushesOneOrFails ==
    (/\ stage = "running" /\ pc < Len(instructions)
     /\ cur.op \in ArithmeticAndComparison /\ Len(stack) >= 2) =>
        \/ stage' = "error"
        \/ /\ stage' = "running" /\ pc' = pc + 1
           /\ Len(stack') = Len(stack) - 1
           /\ SubSeq(stack', 1, Len(stack) - 2) = SubSeq(stack, 1, Len(stack) - 2)

\* C23: every binary arithmetic and comparison instruction pops two
\* operands and then either pushes exactly one result or returns a runtime
\* error; it never continues having pushed nothing.
C23_BinaryPushesOrFails == [][PushesOneOrFails]_vars

\* a conditional jump that is to be taken when the popped Boolean is `taken`
ConditionalJump(op, taken) ==
    (stage = "running" /\ pc < Len(instructions) /\ cur.op = op
     /\ Len(stack) # 0) =>
        IF Top(stack).t = "Boolean"
        THEN /\ stage' = "running"
             /\ stack' = PopLast(stack)
             /\ pc' = IF Top(stack).b = taken THEN cur.n ELSE pc + 1
        ELSE stage' = "error"

ConditionalJumps ==
    /\ ConditionalJump("JumpIfFalse", FALSE)
    /\ ConditionalJump("JumpIfTrue", TRUE)

\* C24: JumpIfFalse(i) pops a Boolean and sets pc = i iff it is false,
\* JumpIfTrue(i) pops a Boolean and sets pc = i iff it is true, otherwise pc
\* advances by one; a non-Boolean top of stack is a runtime error; the VM
\* handles every jump instruction the compiler emits.
C24_ConditionalJumps ==
    /\ [][ConditionalJumps]_vars
    /\ [](At("Jump") \/ At("JumpIfFalse") \/ At("JumpIfTrue") => Handled)

\* the call of the program  fun f(...) -> num { return a }   f(7, 9, ...)
\* supplies more arguments than f declares parameters
TooManyArguments == prog.fam = "call" /\ prog.k > Len(prog.flags)

\* C25: check_function_call returns a type error for every call to a user
\* function that supplies more arguments than the function declares
\* parameters; it never indexes the parameter list out of range.
C25_TooManyArgumentsRejected ==
    (TooManyArguments /\ check # "") =>
        /\ check # "ok"
        /\ check # "panic: index out of bounds"

\* C26: in a run of a program the type checker accepts, a Call to a user
\* function executes only after a DeclareFunction of that name has executed:
\* the function is registered when the Call is reached, so the error 'Usage
\* of undeclared function' cannot occur.
C26_CallAfterDeclareFunction ==
    (At("Call") /\ check = "ok" /\ cur.s \notin vm_native_functions) =>
        MapHas(functions, cur.s)

\* the message of the type checker and of the VM for a second declaration
AlreadyDeclared(name) == "Variable '" \o name \o "' already declared in this scope"

\* the names the program declares
DeclaredNames ==
    {instructions[k].s : k \in {j \in 1..Len(instructions) :
                                    instructions[j].op = "DeclareVariable"}}

\* C27: the type checker rejects a variable declaration as already declared
\* only when the same name is declared in the same block: a declaration in
\* an if-body may shadow an enclosing one as in the VM, so a program the
\* checker rejects as 'already declared' has a DeclareVariable that fails at
\* run time with that error.
C27_CheckerScopesAgreeWithVM ==
    stage \in {"done", "error"} =>
        \A x \in DeclaredNames :
            check = AlreadyDeclared(x) => err = AlreadyDeclared(x)

\* the value a Return hands over: the top of the stack, or Void
ReturnValue == IF Len(stack) # 0 THEN Top(stack) ELSE Void

\* a Return inside a call pops the innermost frame and resumes its caller
ReturnResumesCaller ==
    (At("Return") /\ Len(call_stack) # 0) =>
        /\ call_stack' = PopLast(call_stack)
        /\ Len(scopes') = Top(call_stack).scope_index
        /\ stage' = "running"
        /\ pc' = Top(call_stack).return_address
        /\ instructions[pc'].op = "Call"
        /\ Len(stack') # 0 /\ Top(stack') = ReturnValue

\* a Return outside every call ends the run with the value
ReturnEndsRun ==
    (At("Return") /\ Len(call_stack) = 0) =>
        stage' = "done" /\ result' = Some(ReturnValue)

\* C28: when Return executes with a non-empty call stack, the most recently
\* pushed call frame is popped, the scope-stack depth becomes the depth it
\* had immediately before the matching Call, pc becomes the index of the
\* instruction after that Call, and the returned value is on top of the
\* operand stack; with an empty call stack Return ends the run with that
\* value.
C28_ReturnPopsFrame == [][ReturnResumesCaller /\ ReturnEndsRun]_vars

\* the fixups and labels of the compiler state that compile() ends in
Fixups(c) ==
    /\ \A j \in 1..Len(c.jump_points) :
          /\ c.jump_points[j][1] < Len(c.instructions)
          /\ c.instructions[c.jump_points[j][1] + 1].op \in JumpOps
          /\ MapHas(c.labels, c.jump_points[j][2])
    /\ \A k \in 1..Len(c.instructions) :
          c.instructions[k].op \in JumpOps =>
              /\ \E j \in 1..Len(c.jump_points) :
                    /\ c.jump_points[j][1] = k - 1
                    /\ MapHas(c.labels, c.jump_points[j][2])
                    /\ c.instructions[k].n = c.labels[c.jump_points[j][2]]
              /\ c.instructions[k].n \in 0..(Len(c.instructions) - 1)
    /\ c.instructions[Len(c.instructions)].op = "End"

\* C29: when compile() returns Ok, every recorded fixup refers to a jump
\* instruction and to a defined label, every jump instruction of the output
\* carries the index of its label, and every jump target is an index of the
\* instruction vector, at most the index of the final End; resolve_jumps
\* never panics.
C29_JumpsResolved ==
    /\ stage = "running" =>
          /\ instructions = compile(Statements).instructions
          /\ Fixups(compile(Statements))
    /\ stage = "compile_error" =>
          err \notin {"panic: Unresolved label",
                      "panic: Non jump instruction in jump points"}

\* a compiled program in which a jump targets the final End
C29_Witness ==
    /\ stage = "running"
    /\ \E k \in 1..Len(instructions) :
          instructions[k].op \in JumpOps /\ instructions[k].n = Len(instructions) - 1
    /\ \E k \in 1..Len(instructions) : instructions[k].op = "JumpIfFalse"

\* the positions at which tokenize's loop starts a token, a comment or a
\* skipped character
RECURSIVE TokenStarts(_, _)
TokenStarts(src, i) ==
    IF i > Len(src) THEN {}
    ELSE LET next(r) == IF r.err # "" THEN {} ELSE TokenStarts(src, r.pos)
         IN  {i} \cup next(tokenize_one(src, i))

\* what the loop makes of the '-' at position i, by the character after it
MinusByNextCharacter(src, i) ==
    LET r == tokenize_one(src, i)
        m == tokenize_number(src, i + 1)
    IN  CASE peek(src, i + 1) \in AsciiDigits ->
                IF m.err # "" THEN r.err = m.err
                ELSE r = LexOk(TokenNumber(Negated(m.token.f)), m.pos)
          [] peek(src, i + 1) = "=" -> r = LexOk(TokenOperator("SubAssign"), i + 2)
          [] peek(src, i + 1) = ">" -> r = LexOk(Token("Arrow", ""), i + 2)
          [] OTHER -> r = LexOk(TokenOperator("Minus"), i + 1)

\* C30: a '-' immediately followed by a digit is lexed as the sign of a
\* number literal, whatever token precedes it (a-1 yields Identifier(a),
\* Number(-1)); a '-' followed by '=' yields SubAssign, by '>' Arrow, and
\* by anything else Operator(Minus).
C30_MinusByNextCharacter ==
    stage \in {"tokens", "lex_error"} =>
        /\ \A i \in TokenStarts(Source(prog), 1) :
              Source(prog)[i] = "-" => MinusByNextCharacter(Source(prog), i)
        /\ Source(prog) = <<"a", "-", "1">> =>
              lexed.tokens = <<Token("Identifier", "a"), TokenNumber(FromInt(-1))>>

\* a-1 has been tokenized into two tokens
C30_Witness ==
    /\ stage = "tokens" /\ Source(prog) = <<"a", "-", "1">>
    /\ Len(lexed.tokens) = 2

=============================================================================
